---------------------------- MODULE Spec2Model ----------------------------
(***************************************************************************)
(* A model of polarion_pytest: the work-item cache and testcase index      *)
(* (svn_polarion.py), the line scanners (testinfo.py) and the docstring    *)
(* rewriter and manual-stub generator (cli.py).                            *)
(*                                                                         *)
(* Text is modelled as sequences of one-character strings, so that the     *)
(* regular expressions and the str methods of the source are computed and  *)
(* not assumed.  The sources are Python 2 (`from __future__ import         *)
(* unicode_literals`, integer `/` in get_path): `/` on ints is floor       *)
(* division.                                                               *)
(*                                                                         *)
(* Each part of the program has its own specification (SpecPath, ...)      *)
(* over its own variables; the variables of the other parts stay at their  *)
(* idle value.                                                             *)
(***************************************************************************)
EXTENDS Integers, Sequences, FiniteSets, TLC

VARIABLES
    \* WorkItemCache.get_path: the argument, the `paths` list, the result
    num, paths, path_result, path_pc,
    \* PolarionTestcases: the index (title -> list of ids); the index before
    \* the first strip_parameters call and before the latest one; the order
    \* in which the latest call iterated the titles; the number of calls
    available_testcases, raw_testcases, prev_testcases, strip_order,
    strip_count,
    \* WorkItemCache: the work-item files of the repository (id -> file);
    \* _cache; how often each id's file was looked for (get_tree calls); the
    \* id and the outcome of the latest __getitem__; the number of accesses
    disk, cache, load_attempts, last_id, last_result, access_count,
    \* add_manual_test: the title the stub is generated for, the function
    \* name of the `def` line, and whether the call was made
    stub_title, stub_name, stub_pc,
    \* rendering: the record of the test case; the filtered metadata, which
    \* format_polarion_data changes in place; the lines rendered; the step
    wi_record, wi_metadata, data_list, render_pc,
    \* annotating: the metadata and the line given; the annotation
    \* get_tier_annotation returned; the text append_tier returned; the step
    tier_data, tier_line, tier_annotation, tier_result, tier_pc,
    \* process_testfile: the index; the lines of the file and how many of
    \* them were read; the two scanners; the locals last_test and
    \* polarion_data; TestsTransform.manual_tests_seen; the locals modified
    \* and newfile; the number of the run over the file; the step
    active_testcases, pyinput, line_pos, tiers_info, tests_info, last_test,
    current_data, manual_tests_seen, modified, newfile, run, rewrite_pc,
    \* load_active_testcases: the number of directories walked, the local
    \* `cases`, and the step of get_active_testcases
    walk_pos, walk_cases, load_pc,
    \* main: the manual-tests file on disk, the files given to the rewriter,
    \* and the step
    manual_file, files_fed, main_pc,
    \* get_requirement_annotation: the metadata, which the call changes in
    \* place; the metadata as given; the decorator returned; the step
    req_data, req_given, req_annotation, req_pc,
    \* the scanner alone: the lines read, the CurrentTest object
    scan_input, scan_test,
    \* the run after the load: wi_cache._cache (id -> record) and the same
    \* as it was built; available_testcases; manual_tests_seen; the stubs
    \* gen_manual_testcases returned; the number of tests registered; the
    \* step
    gen_cache, gen_built, gen_index, gen_seen, gen_stubs, gen_tests, gen_pc

pathVars == <<num, paths, path_result, path_pc>>
indexVars == <<available_testcases, raw_testcases, prev_testcases,
               strip_order, strip_count>>
cacheVars == <<disk, cache, load_attempts, last_id, last_result,
               access_count>>
stubVars == <<stub_title, stub_name, stub_pc>>
renderVars == <<wi_record, wi_metadata, data_list, render_pc>>
tierVars == <<tier_data, tier_line, tier_annotation, tier_result, tier_pc>>
rewriteVars == <<active_testcases, pyinput, line_pos, tiers_info, tests_info,
                 last_test, current_data, manual_tests_seen, modified,
                 newfile, run, rewrite_pc>>
loadVars == <<walk_pos, walk_cases, load_pc>>
mainVars == <<manual_file, files_fed, main_pc>>
reqVars == <<req_data, req_given, req_annotation, req_pc>>
scanVars == <<scan_input, scan_test>>
genVars == <<gen_cache, gen_built, gen_index, gen_seen, gen_stubs, gen_tests,
             gen_pc>>
vars == <<pathVars, indexVars, cacheVars, stubVars, renderVars, tierVars,
          rewriteVars, loadVars, mainVars, reqVars, scanVars, genVars>>

---------------------------------------------------------------------------
(* Generic helpers on sequences and text.                                  *)

RECURSIVE Pow10(_)
Pow10(k) == IF k <= 0 THEN 1 ELSE 10 * Pow10(k - 1)

\* '/'.join(parts) and friends: str.join
RECURSIVE Join(_, _)
Join(sep, parts) ==
    IF parts = <<>> THEN ""
    ELSE IF Len(parts) = 1 THEN parts[1]
    ELSE parts[1] \o sep \o Join(sep, Tail(parts))

---------------------------------------------------------------------------
(* WorkItemCache.get_path (svn_polarion.py:30-43)                          *)

\* the largest work-item number drawn
MaxNum == 32100

\* len(str(num)) for num >= 0
RECURSIVE DigLen(_)
DigLen(n) == IF n < 10 THEN 1 ELSE 1 + DigLen(n \div 10)

\* range(dig_len - 2) off by one: a level too many
PathLevelsOneMore(n) == DigLen(n) - 1

\* the number of loop iterations, range(dig_len - 2)
PathLevels(n) == DigLen(n) - 2

\* 10 ** (dig_len - i) : a decade too wide
PathDivisorWide(n, i) == Pow10(DigLen(n) - i)

\* divisor = 10 ** (dig_len - i - 1), i counted from 0
PathDivisor(n, i) == Pow10(DigLen(n) - i - 1)

\* the two numbers formatted into one component, for loop index i (from 0)
PathRange(n, i) ==
    LET divisor == PathDivisor(n, i)
    IN  [lo |-> (n \div divisor) * divisor,
         hi |-> (((n \div divisor) + 1) * divisor) - 1]

\* the `paths` list as numeric ranges
PathRanges(n) ==
    IF PathLevels(n) <= 0 THEN <<>>
    ELSE [k \in 1..PathLevels(n) |-> PathRange(n, k - 1)]

\* '{}-{}'.format(lo, hi)
FormatRange(r) == ToString(r.lo) \o "-" \o ToString(r.hi)

\* get_path(num): '/'.join(paths)
get_path(n) ==
    LET rs == PathRanges(n)
    IN  Join("/", [k \in 1..Len(rs) |-> FormatRange(rs[k])])

PathInit ==
    /\ num \in 0..MaxNum
    /\ paths = <<>>
    /\ path_result = ""
    /\ path_pc = "call"

PathIdle ==
    /\ num = 0
    /\ paths = <<>>
    /\ path_result = ""
    /\ path_pc = "idle"

GetPath ==
    /\ path_pc = "call"
    /\ paths' = PathRanges(num)
    /\ path_result' = get_path(num)
    /\ path_pc' = "done"
    /\ UNCHANGED num

---------------------------------------------------------------------------
(* PolarionTestcases: the index and strip_parameters                       *)
(* (svn_polarion.py:113-156)                                               *)

\* the longest testcase title drawn
MaxTitleLen == 3

\* the number of strip_parameters calls followed
MaxStrips == 2

\* the characters titles are drawn from: a name character and the brackets
\* of a parametrization
TitleChars == {"L", "[", "]"}

\* the work items found by the walk, in the order os.walk yields them
CaseIds == <<"CFME-1", "CFME-2", "CFME-3">>

SeqsUpTo(S, n) == UNION {[1..k -> S] : k \in 0..n}

\* the non-empty titles (load_active_testcases skips a record without one)
TitlePool == SeqsUpTo(TitleChars, MaxTitleLen) \ {<<>>}

\* the positions of character c in text t
Positions(t, c) == {i \in 1..Len(t) : t[i] = c}

SetMin(S) == CHOOSE x \in S : \A y \in S : x <= y
SetMax(S) == CHOOSE x \in S : \A y \in S : x >= y

\* r'\[.*?\]' in place of r'\[.*\]': the match ends at the first `]`
TestParamSubLazy(title) ==
    LET opens == Positions(title, "[")
        first == IF opens = {} THEN 0 ELSE SetMin(opens)
        closes == {j \in Positions(title, "]") : j > first}
    IN  IF first = 0 \/ closes = {} THEN title
        ELSE SubSeq(title, 1, first - 1)
                 \o SubSeq(title, SetMin(closes) + 1, Len(title))

\* TEST_PARAM.sub('', title) with TEST_PARAM = r'\[.*\]' on a one-line title:
\* the leftmost match starts at the first `[` that has a `]` after it and,
\* `.*` being greedy, ends at the last `]`; nothing after it can match
TestParamSub(title) ==
    LET closes == Positions(title, "]")
        last == IF closes = {} THEN 0 ELSE SetMax(closes)
        opens == {i \in Positions(title, "[") : i < last}
    IN  IF opens = {} THEN title
        ELSE SubSeq(title, 1, SetMin(opens) - 1)
                 \o SubSeq(title, last + 1, Len(title))

\* cases[case_title].append(case_id), or cases[case_title] = [case_id]
\* (load_active_testcases, the try/except KeyError)
AppendCase(cases, title, id) ==
    IF title \in DOMAIN cases
    THEN [cases EXCEPT ![title] = Append(@, id)]
    ELSE [t \in DOMAIN cases \cup {title} |->
             IF t = title THEN <<id>> ELSE cases[t]]

\* the loop of load_active_testcases over the walk, given each item's title
RECURSIVE GroupByTitle(_, _, _)
GroupByTitle(cases, walk, titleOf) ==
    IF walk = <<>> THEN cases
    ELSE GroupByTitle(AppendCase(cases, titleOf[walk[1]], walk[1]),
                      Tail(walk), titleOf)

EmptyDict == [t \in {} |-> <<>>]

\* filtered_testcases[param_strip] = case_ids without the extend: the ids of
\* an earlier title with the same stripped name are overwritten
StripOneOverwrite(filtered, title, ids) ==
    LET param_strip == TestParamSub(title)
    IN  [t \in DOMAIN filtered \cup {param_strip} |->
            IF t = param_strip THEN ids ELSE filtered[t]]

\* one iteration of strip_parameters: extend the list under the stripped
\* title, or create it
StripOne(filtered, title, ids) ==
    LET param_strip == TestParamSub(title)
    IN  IF param_strip \in DOMAIN filtered
        THEN [filtered EXCEPT ![param_strip] = @ \o ids]
        ELSE [t \in DOMAIN filtered \cup {param_strip} |->
                 IF t = param_strip THEN ids ELSE filtered[t]]

\* strip_parameters, iterating the titles in the given order
RECURSIVE StripFold(_, _, _)
StripFold(filtered, order, cases) ==
    IF order = <<>> THEN filtered
    ELSE StripFold(StripOne(filtered, order[1], cases[order[1]]),
                   Tail(order), cases)

\* the orders in which a dict with these keys may be iterated
Orders(S) == {o \in [1..Cardinality(S) -> S] :
                 \A i, j \in 1..Cardinality(S) : i # j => o[i] # o[j]}

\* The records found by the walk carry one of two titles (several work
\* items sharing a title are the variants of one testcase).
IndexInit ==
    /\ \E t1, t2 \in TitlePool :
         \E titleOf \in [{CaseIds[i] : i \in 1..Len(CaseIds)} -> {t1, t2}] :
            raw_testcases = GroupByTitle(EmptyDict, CaseIds, titleOf)
    /\ available_testcases = raw_testcases
    /\ prev_testcases = raw_testcases
    /\ strip_order = <<>>
    /\ strip_count = 0

IndexIdle ==
    /\ raw_testcases = EmptyDict
    /\ available_testcases = EmptyDict
    /\ prev_testcases = EmptyDict
    /\ strip_order = <<>>
    /\ strip_count = 0

\* PolarionTestcases.strip_parameters
StripParameters ==
    /\ strip_count < MaxStrips
    /\ \E order \in Orders(DOMAIN available_testcases) :
          /\ available_testcases' =
                 StripFold(EmptyDict, order, available_testcases)
          /\ strip_order' = order
    /\ prev_testcases' = available_testcases
    /\ strip_count' = strip_count + 1
    /\ UNCHANGED raw_testcases

---------------------------------------------------------------------------
(* WorkItemCache (svn_polarion.py:18-110)                                  *)

\* the number of cache accesses followed
MaxAccesses == 4

\* str.split(sep): the parts of text between the separators
RECURSIVE SplitOn(_, _)
SplitOn(text, sep) ==
    LET at == Positions(text, sep)
    IN  IF at = {} THEN <<text>>
        ELSE <<SubSeq(text, 1, SetMin(at) - 1)>>
                 \o SplitOn(SubSeq(text, SetMin(at) + 1, Len(text)), sep)

\* the ids asked for: one without separator, two well-formed
WorkItemIds == {<<"W", "7">>, <<"W", "-", "7">>, <<"W", "-", "8">>}

\* `__, tcid = work_item_id.split('-')` raises ValueError unless there are
\* exactly two parts
BadFormat(id) == Len(SplitOn(id, "-")) # 2

\* _get_steps: the step items at even positions (from 0) are steps, the
\* others expected results
StepsOf(items) ==
    [k \in 1..((Len(items) + 1) \div 2) |-> items[2 * k - 1]]
ResultsOf(items) ==
    [k \in 1..(Len(items) \div 2) |-> items[2 * k]]

\* the work-item files: parse_ok is whether etree.parse succeeds, fields the
\* /work-item/field elements by id (testSteps: its step items)
WorkItemFiles ==
    { [parse_ok |-> FALSE, fields |-> EmptyDict],
      [parse_ok |-> TRUE,
       fields |-> [f \in {"type", "status"} |->
                      IF f = "type" THEN "requirement" ELSE "approved"]],
      [parse_ok |-> TRUE,
       fields |-> [f \in {"status"} |-> "approved"]],
      [parse_ok |-> TRUE,
       fields |-> [f \in {"type", "status", "testSteps"} |->
                      CASE f = "type" -> "testcase"
                        [] f = "status" -> "approved"
                        [] OTHER -> <<"step 1", "result 1", "step 2">>]] }

\* the values a __getitem__ call ends with
NoneResult == [kind |-> "None", fields |-> EmptyDict]
InvalidObject == [kind |-> "InvalidObject", fields |-> EmptyDict]
KeyErrorRaised == [kind |-> "KeyError", fields |-> EmptyDict]
DictOf(fields) == [kind |-> "dict", fields |-> fields]

\* _cache[id] = value
CachePut(c, id, value) ==
    [k \in DOMAIN c \cup {id} |-> IF k = id THEN value ELSE c[k]]

\* the loop over /work-item/field: every field's text under its id, the
\* testSteps field as testSteps and expectedResults
LoadedFields(fields) ==
    [f \in (DOMAIN fields \cup
              (IF "testSteps" \in DOMAIN fields THEN {"expectedResults"} ELSE {}))
        |-> CASE f = "testSteps" -> StepsOf(fields["testSteps"])
              [] f = "expectedResults" /\ "testSteps" \in DOMAIN fields ->
                     ResultsOf(fields["testSteps"])
              [] OTHER -> fields[f]]

\* `if 'assignee' not in ...: ... = ''`
WithAssignee(fields) ==
    IF "assignee" \in DOMAIN fields THEN fields
    ELSE [f \in DOMAIN fields \cup {"assignee"} |->
             IF f = "assignee" THEN "" ELSE fields[f]]

\* `if work_item_id in self._cache: return self._cache[work_item_id]`
GetItemCached(c, id) == c[id]

\* WorkItemCache.__getitem__ with get_tree: the cache and the value the call
\* ends with, and whether get_tree was called
GetItem(c, files, id) ==
    IF id \in DOMAIN c
    THEN [cache |-> c, result |-> GetItemCached(c, id), loaded |-> FALSE]
    ELSE \* the elif reads the defaultdict and so creates an empty dict
         LET c0 == CachePut(c, id, DictOf(EmptyDict))
         IN  IF BadFormat(id) \/ ~files[id].parse_ok
             THEN [cache |-> CachePut(c0, id, InvalidObject),
                   result |-> NoneResult, loaded |-> TRUE]
             ELSE LET got == LoadedFields(files[id].fields)
                  IN  IF "type" \notin DOMAIN got
                      THEN [cache |-> CachePut(c0, id, DictOf(got)),
                            result |-> KeyErrorRaised, loaded |-> TRUE]
                      ELSE IF got["type"] # "testcase"
                      THEN [cache |-> CachePut(c0, id, InvalidObject),
                            result |-> NoneResult, loaded |-> TRUE]
                      ELSE [cache |-> CachePut(c0, id, DictOf(WithAssignee(got))),
                            result |-> DictOf(WithAssignee(got)),
                            loaded |-> TRUE]

CacheInit ==
    /\ disk \in [WorkItemIds -> WorkItemFiles]
    /\ cache = EmptyDict
    /\ load_attempts = [id \in WorkItemIds |-> 0]
    /\ last_id = <<>>
    /\ last_result = NoneResult
    /\ access_count = 0

CacheIdle ==
    /\ disk = EmptyDict
    /\ cache = EmptyDict
    /\ load_attempts = EmptyDict
    /\ last_id = <<>>
    /\ last_result = NoneResult
    /\ access_count = 0

\* wi_cache[id]
Access(id) ==
    /\ access_count < MaxAccesses
    /\ LET r == GetItem(cache, disk, id)
       IN  /\ cache' = r.cache
           /\ last_result' = r.result
           /\ load_attempts' =
                  IF r.loaded THEN [load_attempts EXCEPT ![id] = @ + 1]
                  ELSE load_attempts
    /\ last_id' = id
    /\ access_count' = access_count + 1
    /\ UNCHANGED disk

---------------------------------------------------------------------------
(* add_manual_test: the function name of a manual stub (cli.py:428-457)    *)

\* the number of segments a title is put together from
MaxSegs == 4

\* the length of the long word among the segments
FillerLen == 43

\* new_test_name[:85]
NameLimit == 85

LowerLetters ==
    {"a", "b", "c", "d", "e", "f", "g", "h", "i", "j", "k", "l", "m",
     "n", "o", "p", "q", "r", "s", "t", "u", "v", "w", "x", "y", "z"}
Digits == {"0", "1", "2", "3", "4", "5", "6", "7", "8", "9"}
Whitespace == {" ", "\t", "\n"}

\* str.lower(), on the capitals drawn
LowerChar(c) ==
    CASE c = "T" -> "t" [] c = "V" -> "v" [] OTHER -> c
Lower(text) == [i \in 1..Len(text) |-> LowerChar(text[i])]

\* the chain of .replace(c, '_') calls
ReplacedByUnderscore == {" ", ":", "/", "-", "(", ")", "[", "]"}
ReplaceChar(c) == IF c \in ReplacedByUnderscore THEN "_" ELSE c
ReplaceChain(text) == [i \in 1..Len(text) |-> ReplaceChar(text[i])]

\* str.strip(chars) / lstrip / rstrip
RECURSIVE LStrip(_, _)
LStrip(text, chars) ==
    IF text # <<>> /\ text[1] \in chars THEN LStrip(Tail(text), chars)
    ELSE text
RECURSIVE RStrip(_, _)
RStrip(text, chars) ==
    IF text # <<>> /\ text[Len(text)] \in chars
    THEN RStrip(SubSeq(text, 1, Len(text) - 1), chars)
    ELSE text
Strip(text, chars) == RStrip(LStrip(text, chars), chars)

\* re.sub('_+', '_', text)
RECURSIVE CollapseUnderscores(_)
CollapseUnderscores(text) ==
    IF Len(text) < 2 THEN text
    ELSE IF text[1] = "_" /\ text[2] = "_"
         THEN CollapseUnderscores(Tail(text))
         ELSE <<text[1]>> \o CollapseUnderscores(Tail(text))

\* re.sub('[^a-z0-9_]', '', text)
SelectChars(text, keep) == SelectSeq(text, LAMBDA c : c \in keep)

\* text[:n]
Prefix(text, n) == SubSeq(text, 1, IF Len(text) < n THEN Len(text) ELSE n)

\* text.startswith(pat), at position i
MatchAt(text, pat, i) ==
    /\ i + Len(pat) - 1 <= Len(text)
    /\ \A k \in 1..Len(pat) : text[i + k - 1] = pat[k]

\* `pat in text`
Contains(text, pat) == \E i \in 1..(Len(text) + 1) : MatchAt(text, pat, i)

TEST_ == <<"t", "e", "s", "t", "_">>

\* the function name add_manual_test derives from the title
ManualTestName(title) ==
    LET replaced == ReplaceChain(title)
        stripped == Strip(Strip(replaced, Whitespace), {"_"})
        lowered == Lower(stripped)
        collapsed == CollapseUnderscores(lowered)
        cleaned == SelectChars(collapsed, LowerLetters \cup Digits \cup {"_"})
        cut == Prefix(cleaned, NameLimit)
    IN  IF ~Contains(cut, TEST_) THEN TEST_ \o cut ELSE cut

\* the segments titles are put together from
Filler == [i \in 1..FillerLen |-> "x"]
TitleSegments ==
    { TEST_, <<"T", "e", "s", "t">>, <<"V", "e", "r", "i", "f", "y">>,
      <<" ">>, <<"(">>, <<"!">>, <<"_">>, <<"1">>, Filler }

RECURSIVE Flatten(_)
Flatten(segs) == IF segs = <<>> THEN <<>> ELSE segs[1] \o Flatten(Tail(segs))

\* a record in the index has a non-empty title
StubTitles ==
    {Flatten(segs) : segs \in SeqsUpTo(TitleSegments, MaxSegs) \ {<<>>}}

StubInit ==
    /\ stub_title \in StubTitles
    /\ stub_name = <<>>
    /\ stub_pc = "call"

StubIdle ==
    /\ stub_title = <<>>
    /\ stub_name = <<>>
    /\ stub_pc = "idle"

\* add_manual_test, as far as the `def` line
AddManualTest ==
    /\ stub_pc = "call"
    /\ stub_name' = ManualTestName(stub_title)
    /\ stub_pc' = "done"
    /\ UNCHANGED stub_title

---------------------------------------------------------------------------
(* Text of source files and of field values: sequences of characters.      *)

\* the characters of a string literal (`\o <<>>` makes the tuple of a
\* function over 1..n, so that it is computed once)
Chars(s) == [i \in 1..Len(s) |-> SubSeq(s, i, i)] \o <<>>

\* ''.join(texts)
RECURSIVE Concat(_)
Concat(texts) ==
    IF texts = <<>> THEN <<>> ELSE texts[1] \o Concat(Tail(texts))

\* sep.join(texts)
RECURSIVE JoinText(_, _)
JoinText(sep, texts) ==
    IF texts = <<>> THEN <<>>
    ELSE IF Len(texts) = 1 THEN texts[1]
    ELSE texts[1] \o sep \o JoinText(sep, Tail(texts))

\* text.split(sep) for a one-character separator
RECURSIVE SplitText(_, _)
SplitText(text, sep) ==
    LET at == {i \in 1..Len(text) : text[i] = sep}
    IN  IF at = {} THEN <<text>>
        ELSE LET i == SetMin(at)
             IN  <<SubSeq(text, 1, i - 1)>>
                 \o SplitText(SubSeq(text, i + 1, Len(text)), sep)

\* the text after the first n characters, text[n:]
Suffix(text, n) == SubSeq(text, n + 1, Len(text))

\* text.replace(old, new): the occurrences from the left, not overlapping
RECURSIVE Replace(_, _, _)
Replace(text, old, new) ==
    LET at == {i \in 1..Len(text) : MatchAt(text, old, i)}
    IN  IF at = {} THEN text
        ELSE SubSeq(text, 1, SetMin(at) - 1) \o new
             \o Replace(Suffix(text, SetMin(at) + Len(old) - 1), old, new)

\* n * ' '
Spaces(n) == [i \in 1..n |-> " "] \o <<>>

\* len(line) - len(line.lstrip(' '))
IndentOf(line) == Len(line) - Len(LStrip(line, {" "}))

\* the characters of text at the positions in the set `at`, in order
SelectAt(text, at) ==
    [k \in 1..Cardinality(at) |->
        text[CHOOSE i \in at : Cardinality({j \in at : j < i}) = k - 1]]
    \o <<>>

\* re.sub of a run of one character by a single one: ' +' -> ' ', and
\* (\n)+ -> \n
CollapseRuns(text, c) ==
    SelectAt(text, {i \in 1..Len(text) :
                        ~(i > 1 /\ text[i] = c /\ text[i - 1] = c)})

---------------------------------------------------------------------------
(* _sanitize_string, _sanitize_paragraph and textwrap.wrap                 *)
(* (cli.py:316-347)                                                        *)

CDATA_OPEN == Chars("<![CDATA[")
CDATA_CLOSE == Chars("]]>")

\* re.search(r'<!\[CDATA\[(.+)\]\]>', string): the leftmost opening that has
\* a closing on the same line with at least one character in between; the
\* group is greedy, so it runs up to the last such closing.  The result is
\* <<first, last>> of the group, or <<>> when there is no match.
CDataGroup(string) ==
    LET closings(i) ==
            {j \in (i + Len(CDATA_OPEN) + 1)..Len(string) :
                /\ MatchAt(string, CDATA_CLOSE, j)
                /\ \A k \in (i + Len(CDATA_OPEN))..(j - 1) : string[k] # "\n"}
        openings ==
            {i \in 1..Len(string) :
                MatchAt(string, CDATA_OPEN, i) /\ closings(i) # {}}
    IN  IF openings = {} THEN <<>>
        ELSE LET i == SetMin(openings)
             IN  <<i + Len(CDATA_OPEN), SetMax(closings(i)) - 1>>

\* re.sub('<br ?/?>', '\n', string)
BR_TAGS == {Chars("<br />"), Chars("<br/>"), Chars("<br >"), Chars("<br>")}
BreakAt(string, i) == {t \in BR_TAGS : MatchAt(string, t, i)}
RECURSIVE SubBreaks(_)
SubBreaks(string) ==
    LET at == {i \in 1..Len(string) : BreakAt(string, i) # {}}
    IN  IF at = {} THEN string
        ELSE LET i == SetMin(at)
                 t == CHOOSE t \in BreakAt(string, i) : TRUE
             IN  SubSeq(string, 1, i - 1) \o <<"\n">>
                 \o SubBreaks(Suffix(string, i + Len(t) - 1))

\* re.sub('<[^>]+>', '', string): a '<', at least one character that is not
\* '>', and the next '>'
TagEnd(string, i) ==
    LET closing == {j \in (i + 1)..Len(string) : string[j] = ">"}
    IN  IF string[i] = "<" /\ closing # {} /\ SetMin(closing) > i + 1
        THEN SetMin(closing) ELSE 0
RECURSIVE SubTags(_)
SubTags(string) ==
    LET at == {i \in 1..Len(string) : TagEnd(string, i) # 0}
    IN  IF at = {} THEN string
        ELSE SubSeq(string, 1, SetMin(at) - 1)
             \o SubTags(Suffix(string, TagEnd(string, SetMin(at))))

\* re.sub(' *\n', '\n', string): the spaces that run up to a newline go
SubTrailingSpaces(string) ==
    SelectAt(string, {i \in 1..Len(string) :
        ~(/\ string[i] = " "
          /\ \E j \in (i + 1)..Len(string) :
                /\ string[j] = "\n"
                /\ \A k \in i..(j - 1) : string[k] = " ")})

\* the chain of .replace calls on character entities, in its order
ENTITIES ==
    << <<Chars("&npsp;"), Chars(" ")>>, <<Chars("&gt;"), Chars(">")>>,
       <<Chars("&lt;"), Chars("<")>>, <<Chars("&quot;"), Chars("\"")>>,
       <<Chars("&amp;"), Chars("&")>>, <<Chars("&#39;"), Chars("\"")>>,
       <<Chars("&#10;"), Chars("\n")>> >>
RECURSIVE ReplaceEntities(_, _)
ReplaceEntities(string, entities) ==
    IF entities = <<>> THEN string
    ELSE ReplaceEntities(Replace(string, entities[1][1], entities[1][2]),
                         Tail(entities))

\* cdata.group(1) when the search matched, the whole string otherwise
CDataText(string, cdata) ==
    IF cdata # <<>> THEN SubSeq(string, cdata[1], cdata[2]) ELSE string

_sanitize_string(string) ==
    CollapseRuns(
        ReplaceEntities(
            SubTrailingSpaces(
                SubTags(SubBreaks(CDataText(string, CDataGroup(string))))),
            ENTITIES),
        "\n")


\* chunk.strip() == ''
IsBlank(text) == \A i \in 1..Len(text) : text[i] \in Whitespace

\* TextWrapper._split: the maximal runs of whitespace and of other
\* characters (the texts drawn have no hyphen to split a word at)
RECURSIVE WrapChunks(_)
WrapChunks(text) ==
    IF text = <<>> THEN <<>>
    ELSE LET differ == {i \in 2..Len(text) :
                            (text[i] = " ") # (text[1] = " ")}
             n == IF differ = {} THEN Len(text) ELSE SetMin(differ) - 1
         IN  <<SubSeq(text, 1, n)>> \o WrapChunks(Suffix(text, n))

\* the number of leading chunks that fit into the rest of a line
RECURSIVE WrapFit(_, _, _)
WrapFit(chunks, cur_len, width) ==
    IF chunks # <<>> /\ cur_len + Len(chunks[1]) <= width
    THEN 1 + WrapFit(Tail(chunks), cur_len + Len(chunks[1]), width)
    ELSE 0

\* TextWrapper._wrap_chunks with _handle_long_word (break_long_words and
\* drop_whitespace are on, the indents are empty)
RECURSIVE WrapLines(_, _, _)
WrapLines(chunks, width, has_lines) ==
    IF chunks = <<>> THEN <<>>
    ELSE
    LET kept == IF has_lines /\ IsBlank(chunks[1]) THEN Tail(chunks)
                ELSE chunks
        k == WrapFit(kept, 0, width)
        fitted == SubSeq(kept, 1, k)
        rest == Suffix(kept, k)
        cur_len == Len(Concat(fitted))
        long == rest # <<>> /\ Len(rest[1]) > width
        space_left == IF width < 1 THEN 1 ELSE width - cur_len
        cur_line == IF long THEN Append(fitted, Prefix(rest[1], space_left))
                    ELSE fitted
        left == IF long THEN <<Suffix(rest[1], space_left)>> \o Tail(rest)
                ELSE rest
        dropped == IF cur_line # <<>> /\ IsBlank(cur_line[Len(cur_line)])
                   THEN SubSeq(cur_line, 1, Len(cur_line) - 1)
                   ELSE cur_line
    IN  IF dropped # <<>>
        THEN <<Concat(dropped)>> \o WrapLines(left, width, TRUE)
        ELSE WrapLines(left, width, has_lines)

\* textwrap.wrap(text, width): whitespace becomes spaces, then the chunks
\* are laid out
Wrap(text, width) ==
    LET munged == [i \in 1..Len(text) |->
                        IF text[i] \in Whitespace THEN " " ELSE text[i]]
                  \o <<>>
    IN  WrapLines(WrapChunks(munged), width, FALSE)

\* textwrap.wrap's default width
DefaultWidth == 70

\* Python values of the metadata: None, a string, a list of strings
NoneValue == [t |-> "none", v |-> <<>>]
StrValue(text) == [t |-> "str", v |-> text]
ListValue(texts) == [t |-> "list", v |-> texts]

\* the truth value of a Python value: None, '' and [] are false
Truthy(value) == value.t # "none" /\ value.v # <<>>

\* the lines of the paragraph, each stripped and wrapped
RECURSIVE WrapEach(_)
WrapEach(desc_lines) ==
    IF desc_lines = <<>> THEN <<>>
    ELSE Wrap(Strip(desc_lines[1], Whitespace), DefaultWidth)
         \o WrapEach(Tail(desc_lines))

\* the lines of a paragraph that is sanitized already
ParagraphLines(new_paragraph) ==
    IF new_paragraph = <<>> THEN NoneValue
    ELSE ListValue(WrapEach(SplitText(new_paragraph, "\n")))

_sanitize_paragraph(paragraph) ==
    IF paragraph = <<>> THEN NoneValue
    ELSE ParagraphLines(_sanitize_string(paragraph))

---------------------------------------------------------------------------
(* The field tables of polarion_docstrings.polarion_fields (imported as    *)
(* pf; not part of the sources at hand), as far as the fields modelled.    *)

\* field -> documented default value
POLARION_FIELDS ==
    [assignee |-> "", casecomponent |-> "-", initialEstimate |-> "",
     caseimportance |-> "high", caselevel |-> "component",
     caseautomation |-> "automated", description |-> "", setup |-> "",
     teardown |-> "", title |-> "", linkedWorkItems |-> "",
     testSteps |-> "", expectedResults |-> "", work_item_id |-> ""]

REQUIRED_FIELDS == {"assignee", "casecomponent", "initialEstimate"}

MANUAL_ONLY_FIELDS == {"setup", "teardown", "title"}

\* the fields with an enumerated set of values
VALID_VALUES == {"caseimportance", "caselevel", "caseautomation"}

\* caselevel -> tier
CASELEVELS == [component |-> 1, integration |-> 2, system |-> 3]

\* the translation table of casecomponent
CASECOMPONENT_MAP == [cloud |-> "Cloud"]

FieldNames == DOMAIN POLARION_FIELDS

---------------------------------------------------------------------------
(* TestsTransform: the metadata of a test (cli.py:28-259).  A dict is a    *)
(* function from the keys it holds.                                        *)

\* dict.get(key): None when the key is absent
DictGet(dict, key) == IF key \in DOMAIN dict THEN dict[key] ELSE NoneValue

\* dict[key] = value
DictSet(dict, key, value) ==
    [k \in DOMAIN dict \cup {key} |-> IF k = key THEN value ELSE dict[k]]

\* del dict[key]
DictDel(dict, key) == [k \in DOMAIN dict \ {key} |-> dict[k]]

EmptyData == [k \in {} |-> NoneValue]

\* DEFAULT_DATA
DEFAULT_DATA == [key \in REQUIRED_FIELDS |-> NoneValue]

\* a variant of filter_testcase_fields that keeps the fields equal to their
\* default
filter_testcase_fields_keep_defaults(testcase_data) ==
    LET polarion_value(field) ==
            IF Truthy(DictGet(testcase_data, field))
            THEN testcase_data[field] ELSE NoneValue
        kept == {field \in FieldNames :
                    field \in REQUIRED_FIELDS
                    \/ Truthy(DictGet(testcase_data, field))}
    IN  [field \in kept |-> polarion_value(field)]

\* filter_testcase_fields, for a record that is not empty: the fields that
\* are set and differ from their default, and the required fields that are
\* not set, as None
filter_testcase_fields(testcase_data) ==
    LET polarion_value(field) ==
            IF Truthy(DictGet(testcase_data, field))
            THEN testcase_data[field] ELSE NoneValue
        kept == {field \in FieldNames :
                    /\ field \in REQUIRED_FIELDS
                       \/ Truthy(DictGet(testcase_data, field))
                    /\ polarion_value(field)
                        # StrValue(Chars(POLARION_FIELDS[field]))}
    IN  [field \in kept |-> polarion_value(field)]


\* the length of the match of re.match(r'[0-9]+[.)]? ?', step); 0 when the
\* step does not start with a digit
NumberedLen(step) ==
    LET digits == Len(step) - Len(LStrip(step, Digits))
        after == Suffix(step, digits)
        mark == IF after # <<>> /\ after[1] \in {".", ")"} THEN 1 ELSE 0
        space == IF Len(after) > mark /\ after[mark + 1] = " " THEN 1 ELSE 0
    IN  IF digits = 0 THEN 0 ELSE digits + mark + space

\* the longest line _wrap_values and _format_steps leave unwrapped, and the
\* width they wrap to
LongLine == 80
WrapWidth == 60

\* step_num: nothing for a step that brings its number, else the index
StepNum(index, step) ==
    IF NumberedLen(step) > 0 THEN <<>>
    ELSE IF step # <<>> THEN Chars(ToString(index)) \o Chars(". ")
    ELSE Chars(ToString(index)) \o Chars(".")

\* the first line behind the number, the wrapped lines behind wrap_indent
StepLines(step_num, numbered, wrapped) ==
    <<Spaces(4) \o step_num \o wrapped[1]>>
    \o [i \in 1..(Len(wrapped) - 1) |->
            Spaces(4 + IF step_num # <<>> THEN Len(step_num) ELSE numbered)
            \o wrapped[i + 1]]

\* the lines of a step that is sanitized and stripped already
FormatStepText(index, step) ==
    StepLines(StepNum(index, step), NumberedLen(step),
              IF Len(step) > LongLine THEN Wrap(step, WrapWidth)
              ELSE <<step>>)

\* the lines _format_steps makes of the step with the given index
FormatStep(index, raw_step) ==
    FormatStepText(index, Strip(_sanitize_string(raw_step), Whitespace))

RECURSIVE FormatStepsFrom(_, _)
FormatStepsFrom(index, steps) ==
    IF steps = <<>> THEN <<>>
    ELSE FormatStep(index, steps[1]) \o FormatStepsFrom(index + 1, Tail(steps))

_format_steps(steps) ==
    IF Len(steps) = 1 /\ steps[1] = <<>> THEN <<>>
    ELSE FormatStepsFrom(1, steps)

\* the formatted steps under their heading, or nothing
WithHeading(field, new_steps) ==
    IF new_steps # <<>> THEN <<Chars(field) \o Chars(":")>> \o new_steps
    ELSE <<>>

\* the lines of the steps a field holds
StepsOfValue(field, value) ==
    IF Truthy(value) THEN WithHeading(field, _format_steps(value.v))
    ELSE <<>>

\* one half of _get_formatted_steps: the heading and the formatted steps of
\* the field, or nothing
FormattedField(polarion_data, field) ==
    StepsOfValue(field, DictGet(polarion_data, field))

\* ', '.join(value): of the items of a list, of the characters of a string
JoinLinked(value) ==
    IF value.t = "list" THEN JoinText(Chars(", "), value.v)
    ELSE [k \in 1..(3 * Len(value.v) - 2) |->
            CASE k % 3 = 1 -> value.v[(k + 2) \div 3]
              [] k % 3 = 2 -> ","
              [] OTHER -> " "] \o <<>>

\* casecomponent, looked up in pf.CASECOMPONENT_MAP
MapComponent(value) ==
    LET keys == {k \in DOMAIN CASECOMPONENT_MAP : value = StrValue(Chars(k))}
    IN  IF keys = {} THEN value
        ELSE StrValue(Chars(CASECOMPONENT_MAP[CHOOSE k \in keys : TRUE]))

\* a variant of _transform_polarion_data that keeps every title
_transform_keep_title(polarion_data) ==
    [key \in DOMAIN polarion_data |->
        LET value == polarion_data[key]
        IN  IF ~Truthy(value) THEN value
            ELSE CASE key = "linkedWorkItems" -> StrValue(JoinLinked(value))
                   [] key = "casecomponent" -> MapComponent(value)
                   [] key \in {"setup", "teardown"} ->
                        _sanitize_paragraph(value.v)
                   [] OTHER -> value]

_transform_polarion_data(polarion_data) ==
    LET title == IF "title" \in DOMAIN polarion_data
                 THEN polarion_data["title"].v ELSE <<>>
        kept == IF Contains(title, TEST_) /\ Len(title) <= NameLimit
                THEN DictDel(polarion_data, "title") ELSE polarion_data
    IN  _transform_keep_title(kept)

\* the keys _wrap_values leaves alone
WRAP_OMMIT_KEYS ==
    {"casecomponent", "setup", "teardown", "description", "testSteps",
     "expectedResults", "linkedWorkItems"}

\* a line that is sanitized and stripped: wrapped when too long, else on
\* one line
WrappedLine(line) ==
    IF Len(line) > LongLine THEN ListValue(Wrap(line, WrapWidth))
    ELSE IF Contains(line, <<"\n">>)
    THEN StrValue(CollapseRuns(Replace(line, <<"\n">>, <<" ">>), " "))
    ELSE StrValue(line)

\* what _wrap_values makes of the value of a key
WrapValue(key, value) ==
    IF key \in WRAP_OMMIT_KEYS \/ ~Truthy(value) \/ value.t = "list"
    THEN value
    ELSE WrappedLine(Strip(IF key \notin VALID_VALUES
                           THEN _sanitize_string(value.v) ELSE value.v,
                           Whitespace))

_wrap_values(polarion_data) ==
    [key \in DOMAIN polarion_data |-> WrapValue(key, polarion_data[key])]


\* the keys format_polarion_data never renders as `key: value`
FORMAT_OMMIT_KEYS ==
    {"caseautomation", "caselevel", "description", "testSteps",
     "expectedResults", "work_item_id"}

\* sorted(): the field names in the order of their code points
SortedFieldNames ==
    <<"assignee", "caseautomation", "casecomponent", "caseimportance",
      "caselevel", "description", "expectedResults", "initialEstimate",
      "linkedWorkItems", "setup", "teardown", "testSteps", "title",
      "work_item_id">>

\* the dict format_polarion_data leaves behind in its argument
TransformedData(polarion_data) ==
    _wrap_values(_transform_polarion_data(polarion_data))

\* a variant of FormatKey that renders the fields with a value only
FormatKeyValuesOnly(key, value) ==
    LET lines == IF ~Truthy(value) THEN <<>>
                 ELSE IF value.t = "list" THEN value.v ELSE <<value.v>>
    IN  IF lines = <<>> \/ lines[1] = <<>> THEN <<>>
        ELSE <<Chars(key) \o Chars(": ") \o lines[1]>>
             \o [i \in 1..(Len(lines) - 1) |->
                    Spaces(Len(Chars(key)) + 2) \o lines[i + 1]]

\* the lines format_polarion_data renders for one key
FormatKey(key, value) ==
    LET lines == IF ~Truthy(value) THEN <<>>
                 ELSE IF value.t = "list" THEN value.v ELSE <<value.v>>
        first_line == IF lines = <<>> THEN <<>> ELSE lines[1]
        shown == IF first_line # <<>> THEN first_line ELSE Chars("None")
        key_indent == Spaces(Len(Chars(key)) + 2)
    IN  (IF first_line # <<>> \/ key \in REQUIRED_FIELDS
         THEN <<Chars(key) \o Chars(": ") \o shown>> ELSE <<>>)
        \o [i \in 1..(Len(lines) - 1) |-> key_indent \o lines[i + 1]]

RECURSIVE FormatKeys(_, _)
FormatKeys(keys, data) ==
    IF keys = <<>> THEN <<>>
    ELSE FormatKey(keys[1], data[keys[1]]) \o FormatKeys(Tail(keys), data)

\* ommit_keys: with the manual-only fields when there is no caseautomation
OmmitKeys(polarion_data) ==
    IF "caseautomation" \notin DOMAIN polarion_data
    THEN FORMAT_OMMIT_KEYS \cup MANUAL_ONLY_FIELDS
    ELSE FORMAT_OMMIT_KEYS

\* sorted(set(polarion_data) - ommit_keys)
RenderedKeys(data, ommit_keys) ==
    SelectSeq(SortedFieldNames, LAMBDA key : key \in DOMAIN data \ ommit_keys)

\* the `key: value` lines of the transformed metadata
FormatFields(data, ommit_keys) ==
    FormatKeys(RenderedKeys(data, ommit_keys), data)

format_polarion_data(polarion_data) ==
    FormatFields(TransformedData(polarion_data), OmmitKeys(polarion_data))
    \o FormattedField(polarion_data, "testSteps")
    \o FormattedField(polarion_data, "expectedResults")

\* each line behind the same indent
IndentLines(indent, lines) ==
    [i \in 1..Len(lines) |-> indent \o lines[i]] \o <<>>

\* get_polarion_docstring: the text of the metadata block, without a final
\* newline; '' for empty metadata
get_polarion_docstring(polarion_data, indent) ==
    IF DOMAIN polarion_data = {} THEN <<>>
    ELSE JoinText(<<"\n">>,
                  <<Spaces(indent) \o Chars("Polarion:")>>
                  \o IndentLines(Spaces(indent + 4),
                                 format_polarion_data(polarion_data)))

---------------------------------------------------------------------------
(* Rendering one record: filter_testcase_fields, then                      *)
(* format_polarion_data (cli.py:73-87, 203-244)                            *)

\* the number of fields a record sets
MaxSetFields == 2

\* a value of three long words, longer than a line
LongText == [i \in 1..92 |-> IF i \in {31, 62} THEN " " ELSE "x"] \o <<>>

\* the values a record may hold for a field: None and '' for a field
\* without text, strings with and without markup, lists of steps
FieldValues ==
    [assignee |-> {NoneValue, StrValue(Chars("jdoe")),
                   StrValue(Chars("<b></b>"))},
     casecomponent |-> {StrValue(Chars("-")), StrValue(Chars("cloud"))},
     initialEstimate |-> {StrValue(Chars("")), StrValue(Chars("1h"))},
     caseimportance |-> {StrValue(Chars("high")), StrValue(Chars("low"))},
     caselevel |-> {StrValue(Chars("component")),
                    StrValue(Chars("integration"))},
     caseautomation |-> {StrValue(Chars("automated")),
                         StrValue(Chars("notautomated"))},
     description |-> {StrValue(Chars("")), StrValue(Chars("Check X"))},
     setup |-> {StrValue(Chars("boot<br/>log in")),
                StrValue(Chars("<p> </p>"))},
     teardown |-> {NoneValue, StrValue(Chars("<b></b>")),
                   StrValue(Chars("log out"))},
     title |-> {StrValue(Chars("test_foo")), StrValue(Chars("Login")),
                StrValue(LongText)},
     linkedWorkItems |-> {NoneValue, StrValue(Chars("R1"))},
     testSteps |-> {ListValue(<<>>), ListValue(<< <<>> >>),
                    ListValue(<<Chars("1. go"), Chars("<b>click</b>")>>)},
     expectedResults |-> {ListValue(<< <<>> >>), ListValue(<<Chars("ok")>>)},
     work_item_id |-> {StrValue(Chars("CFME-1"))}]

\* the records over a set of fields
RecordsOver(fields) ==
    {data \in [fields -> UNION {FieldValues[f] : f \in fields}] :
        \A f \in fields : data[f] \in FieldValues[f]}

RenderInit ==
    /\ \E fields \in SUBSET FieldNames :
          /\ Cardinality(fields) \in 1..MaxSetFields
          /\ wi_record \in RecordsOver(fields)
    /\ wi_metadata = EmptyData
    /\ data_list = <<>>
    /\ render_pc = "filter"

RenderIdle ==
    /\ wi_record = EmptyData
    /\ wi_metadata = EmptyData
    /\ data_list = <<>>
    /\ render_pc = "idle"

\* get_polarion_data: the record, filtered
FilterFields ==
    /\ render_pc = "filter"
    /\ wi_metadata' = filter_testcase_fields(wi_record)
    /\ render_pc' = "format"
    /\ UNCHANGED <<wi_record, data_list>>

\* format_polarion_data: the lines of the block; the argument is changed
\* in place
FormatData ==
    /\ render_pc = "format"
    /\ data_list' = format_polarion_data(wi_metadata)
    /\ wi_metadata' = TransformedData(wi_metadata)
    /\ render_pc' = "done"
    /\ UNCHANGED wi_record

---------------------------------------------------------------------------
(* CurrentTier: the tier declared for the current scope                    *)
(* (testinfo.py:9-49).  A tier is the string the pattern captured; None    *)
(* is the empty string.                                                    *)

\* one element of a compiled pattern against one character: "." is any
\* character but a newline, "[1-3]" is the class
AtomMatches(atom, c) ==
    CASE atom = "." -> c # "\n"
      [] atom = "[1-3]" -> c \in {"1", "2", "3"}
      [] OTHER -> c = atom

\* the pattern matches the text from position i on
PatternAt(text, pat, i) ==
    /\ i + Len(pat) - 1 <= Len(text)
    /\ \A k \in 1..Len(pat) : AtomMatches(pat[k], text[i + k - 1])

\* r'pytest.mark.tier\(([1-3])\)': the dots are not escaped
TIER_MOD == Chars("pytest.mark.tier(") \o <<"[1-3]", ")">>
\* r'@pytest.mark.tier\(([1-3])\)'
TIER_DEC == <<"@">> \o TIER_MOD

\* pat.search(line): group(1) of the leftmost match, None without a match
TierFound(line, pat) ==
    LET at == {i \in 1..Len(line) : PatternAt(line, pat, i)}
    IN  IF at = {} THEN "" ELSE line[SetMin(at) + Len(pat) - 2]

CLASS_TEST == Chars("class Test")
DEF_TEST == Chars("def test_")

\* CurrentTier.__init__
CurrentTierInit ==
    [tier_missing |-> FALSE, _module |-> "", _class |-> "", _method |-> "",
     _method_indent |-> 0, _tier_pending |-> ""]

\* process_line on a line with 'class Test': the class takes the pending
\* tier
TierOfClass(tier) ==
    [tier EXCEPT !.tier_missing = FALSE,
                 !._class = tier._tier_pending,
                 !._tier_pending = ""]

\* process_line on a line with 'def test_': the method takes the pending
\* tier, a method without indent leaves the class, and the tier is missing
\* when neither the method nor the class nor the module has one
TierOfMethod(tier, method_indent) ==
    [tier EXCEPT !._method = tier._tier_pending,
                 !._tier_pending = "",
                 !._method_indent = method_indent,
                 !._class = IF method_indent = 0 THEN "" ELSE tier._class,
                 !.tier_missing =
                     /\ tier._tier_pending = ""
                     /\ (method_indent = 0 \/ tier._class = "")
                     /\ tier._module = ""]

CurrentTier_process_line(tier, line) ==
    IF TierFound(line, TIER_DEC) # ""
    THEN [tier EXCEPT !.tier_missing = FALSE,
                      !._tier_pending = TierFound(line, TIER_DEC)]
    ELSE IF TierFound(line, TIER_MOD) # ""
    THEN [tier EXCEPT !.tier_missing = FALSE,
                      !._module = TierFound(line, TIER_MOD)]
    ELSE IF Contains(line, CLASS_TEST) THEN TierOfClass(tier)
    ELSE IF Contains(line, DEF_TEST) THEN TierOfMethod(tier, IndentOf(line))
    ELSE [tier EXCEPT !.tier_missing = FALSE]

---------------------------------------------------------------------------
(* CurrentTest: the test and the doc block the lines are in                *)
(* (testinfo.py:52-143).  A name is a text; None is the empty text, which  *)
(* no pattern captures.                                                    *)

QUOTES == Chars("\"\"\"")

\* the line without its line end, where "$" matches
BeforeLineEnd(line) ==
    IF line # <<>> /\ line[Len(line)] = "\n"
    THEN SubSeq(line, 1, Len(line) - 1)
    ELSE line

EndsWith(text, tail) ==
    /\ Len(text) >= Len(tail)
    /\ SubSeq(text, Len(text) - Len(tail) + 1, Len(text)) = tail

\* the text from position first up to the first of the stop characters,
\* the empty text when none follows
UpToStop(text, first, from, stops) ==
    LET at == {j \in from..Len(text) : text[j] \in stops}
    IN  IF at = {} THEN <<>> ELSE SubSeq(text, first, SetMin(at) - 1)

\* CLASS_NAME.match(line).group(1) for r' *class (Test[^(:]*)[(:]'
ClassNameIn(rest) ==
    IF MatchAt(rest, Chars("class Test"), 1)
    THEN UpToStop(rest, 7, 11, {"(", ":"})
    ELSE <<>>

CLASS_NAME(line) == ClassNameIn(LStrip(line, {" "}))

\* TEST_NAME.match(line).group(1) for r' *def (test_[^(]*)\('
TestNameIn(rest) ==
    IF MatchAt(rest, Chars("def test_"), 1)
    THEN UpToStop(rest, 5, 10, {"("})
    ELSE <<>>

TEST_NAME(line) == TestNameIn(LStrip(line, {" "}))

\* TEST_DEF_END.match(line) for r'.*\): *$'
TEST_DEF_END(line) == EndsWith(RStrip(BeforeLineEnd(line), {" "}), Chars("):"))

\* DOCSTRING_START.match(line) for r' *"""'
DOCSTRING_START(line) == MatchAt(LStrip(line, {" "}), QUOTES, 1)

\* DOCSTRING_SAME_END.match(line) for r' *[^ ].+""" *$': the quotes end the
\* line and at least two characters come before them
DOCSTRING_SAME_END(line) ==
    /\ EndsWith(RStrip(BeforeLineEnd(line), {" "}), QUOTES)
    /\ Len(Strip(BeforeLineEnd(line), {" "})) >= 5

\* DOCSTRING_END.match(line) for r' *""" *$'
DOCSTRING_END(line) == Strip(BeforeLineEnd(line), {" "}) = QUOTES

\* CurrentTest.__init__
CurrentTestInit ==
    [test_class |-> <<>>, test_name |-> <<>>, docstring_data |-> <<>>,
     docstring_begin |-> FALSE, docstring_end |-> FALSE,
     line_is_in_docstring |-> FALSE, _test_def_now |-> FALSE,
     _docstring_next |-> FALSE, _docstring_now |-> FALSE]

\* the three flags process_line clears first
FlagsCleared(test) ==
    [test EXCEPT !.docstring_begin = FALSE, !.docstring_end = FALSE,
                 !.line_is_in_docstring = FALSE]

\* the text of the doc block's last line without the closing quotes
SameLineText(line) ==
    RStrip(RStrip(RStrip(line, Whitespace), {"\""}), Whitespace) \o <<"\n">>

_handle_same_line_end(test, line) ==
    [test EXCEPT !.docstring_data = Append(test.docstring_data,
                                           SameLineText(line)),
                 !.docstring_end = TRUE,
                 !.line_is_in_docstring = TRUE,
                 !._docstring_now = FALSE]

_handle_class(test, class_name) ==
    IF class_name = <<>> THEN test ELSE [test EXCEPT !.test_class = class_name]

\* str(test_class) in '{}.{}'.format(test_class, test_name)
ClassText(test_class) ==
    IF test_class = <<>> THEN Chars("None") ELSE test_class

\* the name _handle_test registers: a test with indent is named after the
\* class
QualifiedName(test_class, test_name, curr_indent) ==
    IF curr_indent > 0
    THEN ClassText(test_class) \o <<".">> \o test_name
    ELSE test_name

_handle_test(test, line, test_name) ==
    IF test_name = <<>> THEN test
    ELSE [test EXCEPT
            !.test_name = QualifiedName(test.test_class, test_name,
                                        IndentOf(line)),
            !.test_class = IF IndentOf(line) > 0 THEN test.test_class
                           ELSE <<>>,
            !.docstring_data = <<>>,
            !._test_def_now = ~TEST_DEF_END(line),
            !._docstring_next = test._docstring_next \/ TEST_DEF_END(line)]

\* process_line on the first line that is not blank after the signature
AfterSignature(test, line) ==
    IF ~DOCSTRING_START(line)
    THEN [test EXCEPT !._docstring_next = FALSE, !.docstring_end = TRUE]
    ELSE IF DOCSTRING_SAME_END(line)
    THEN _handle_same_line_end(
             [test EXCEPT !._docstring_next = FALSE,
                          !.docstring_data = <<>>], line)
    ELSE [test EXCEPT !._docstring_next = FALSE,
                      !.docstring_data = <<line>>,
                      !.docstring_begin = TRUE,
                      !.line_is_in_docstring = TRUE,
                      !._docstring_now = TRUE]

\* process_line once the flags are cleared
ProcessCleared(test, line) ==
    IF Contains(line, CLASS_TEST) THEN _handle_class(test, CLASS_NAME(line))
    ELSE IF Contains(line, DEF_TEST)
    THEN _handle_test(test, line, TEST_NAME(line))
    ELSE IF test._test_def_now /\ TEST_DEF_END(line)
    THEN [test EXCEPT !._docstring_next = TRUE, !._test_def_now = FALSE]
    ELSE IF test._docstring_next
    THEN IF Strip(line, Whitespace) = <<>> THEN test
         ELSE AfterSignature(test, line)
    ELSE IF test._docstring_now /\ DOCSTRING_SAME_END(line)
    THEN _handle_same_line_end(test, line)
    ELSE IF test._docstring_now /\ DOCSTRING_END(line)
    THEN [test EXCEPT !._docstring_now = FALSE,
                      !.line_is_in_docstring = TRUE,
                      !.docstring_end = TRUE]
    ELSE IF test._docstring_now
    THEN [test EXCEPT !.line_is_in_docstring = TRUE,
                      !.docstring_data = Append(test.docstring_data, line)]
    ELSE test

CurrentTest_process_line(test, line) == ProcessCleared(FlagsCleared(test), line)

---------------------------------------------------------------------------
(* TestsTransform: the tier line and the doc block of a test               *)
(* (cli.py:43-71, 261-279).  A tier is a number; None is 0, which is not   *)
(* a tier either.                                                          *)

\* pf.CASELEVELS[caselevel] for the text of a level the table holds
TierOfLevel(text) ==
    CASELEVELS[CHOOSE level \in DOMAIN CASELEVELS : Chars(level) = text]

\* a variant of get_tier that gives the default level a tier as well
get_tier_of_default(polarion_data) ==
    IF DOMAIN polarion_data = {} THEN 0
    ELSE IF "caselevel" \in DOMAIN polarion_data
    THEN TierOfLevel(polarion_data["caselevel"].v)
    ELSE TierOfLevel(Chars("component"))

get_tier(polarion_data) ==
    IF DOMAIN polarion_data = {} THEN 0
    ELSE IF "caselevel" \in DOMAIN polarion_data
    THEN IF polarion_data["caselevel"].v = Chars(POLARION_FIELDS["caselevel"])
         THEN 0
         ELSE TierOfLevel(polarion_data["caselevel"].v)
    ELSE IF Chars("component") = Chars(POLARION_FIELDS["caselevel"])
    THEN 0
    ELSE TierOfLevel(Chars("component"))

\* '@pytest.mark.tier({})'.format(tier)
TierAnnotation(tier) ==
    Chars("@pytest.mark.tier(") \o Chars(ToString(tier)) \o <<")">>

\* None is the empty text
get_tier_annotation(polarion_data) ==
    IF get_tier(polarion_data) = 0 THEN <<>>
    ELSE TierAnnotation(get_tier(polarion_data))

\* '{}{}\n{}'.format(method_indent * ' ', tier_annotation, line)
AnnotatedLine(annotation, line) ==
    IF annotation = <<>> THEN line
    ELSE Spaces(IndentOf(line)) \o annotation \o <<"\n">> \o line

\* a variant of append_tier that puts the tier line behind the line
append_tier_after(polarion_data, line) ==
    IF get_tier_annotation(polarion_data) = <<>> THEN line
    ELSE line \o Spaces(IndentOf(line)) \o get_tier_annotation(polarion_data)
         \o <<"\n">>

append_tier(polarion_data, line) ==
    AnnotatedLine(get_tier_annotation(polarion_data), line)

\* TestcasesDB.get_by_name(testcase_name, automated=True) over the records
\* of the name's ids: the first automated one, None (the empty record)
\* without one (svn_polarion.py:172-189)
IsAutomated(case) ==
    DictGet(case, "caseautomation") = StrValue(Chars("automated"))

get_by_name(cases) ==
    IF SelectSeq(cases, IsAutomated) = <<>> THEN EmptyData
    ELSE Head(SelectSeq(cases, IsAutomated))

\* get_testcase_data: None for a name the index does not hold
get_testcase_data(testcase_name, testcases) ==
    IF testcase_name \in DOMAIN testcases
    THEN get_by_name(testcases[testcase_name])
    ELSE EmptyData

\* filter_testcase_fields for any record: None for no record
FilteredOrNone(testcase_data) ==
    IF DOMAIN testcase_data = {} THEN EmptyData
    ELSE filter_testcase_fields(testcase_data)

get_polarion_data(testcase_name, testcases) ==
    FilteredOrNone(get_testcase_data(testcase_name, testcases))

\* '{}\n{}\n{}"""\n'.format(new_docstring, polarion_docstring, indent_str)
DocstringText(new_docstring, polarion_docstring, indent_str) ==
    new_docstring \o <<"\n">> \o polarion_docstring \o <<"\n">>
    \o indent_str \o QUOTES \o <<"\n">>

\* the doc block so far: the lines read, or the opening quotes
DocstringSoFar(docstring_data, indent_str) ==
    IF docstring_data # <<>> THEN Concat(docstring_data)
    ELSE indent_str \o QUOTES

\* the indent of the doc block: 8 if tests_info.test_class else 4
DocstringIndent(test) == IF test.test_class # <<>> THEN 8 ELSE 4

append_to_docstring(test, polarion_data) ==
    IF test.docstring_data = <<>> /\ DOMAIN polarion_data = {} THEN <<>>
    ELSE DocstringText(
             DocstringSoFar(test.docstring_data,
                            Spaces(DocstringIndent(test))),
             get_polarion_docstring(polarion_data, DocstringIndent(test)),
             Spaces(DocstringIndent(test)))

---------------------------------------------------------------------------
(* Annotating one line: get_tier_annotation, then append_tier              *)
(* (cli.py:43-64)                                                          *)

\* the lines of a test file
SourceLines ==
    {Chars("def test_foo():\n"),
     Chars("class TestC(object):\n"),
     Chars("class Base(object):\n"),
     Chars("    def test_foo(self):\n"),
     Chars("async def test_bar():\n"),
     Chars("    pass\n"),
     Chars("        pass\n"),
     Chars("\n"),
     Chars("    \"\"\"Doc.\"\"\"\n"),
     Chars("    \"\"\"\n"),
     Chars("@pytest.mark.tier(1)\n")}

\* the metadata sets: None and the values of three fields, one of them
\* caselevel with every level of pf.CASELEVELS
TierFieldValues ==
    [caselevel |-> {StrValue(Chars(level)) : level \in DOMAIN CASELEVELS},
     caseimportance |-> {StrValue(Chars("low"))},
     assignee |-> {NoneValue, StrValue(Chars("jdoe"))}]

TierData ==
    UNION {{data \in [fields -> UNION {TierFieldValues[f] : f \in fields}] :
               \A f \in fields : data[f] \in TierFieldValues[f]} :
           fields \in SUBSET DOMAIN TierFieldValues}

TierInit ==
    /\ tier_data \in TierData
    /\ tier_line \in SourceLines
    /\ tier_annotation = <<>>
    /\ tier_result = <<>>
    /\ tier_pc = "annotate"

TierIdle ==
    /\ tier_data = EmptyData
    /\ tier_line = <<>>
    /\ tier_annotation = <<>>
    /\ tier_result = <<>>
    /\ tier_pc = "idle"

GetTierAnnotation ==
    /\ tier_pc = "annotate"
    /\ tier_annotation' = get_tier_annotation(tier_data)
    /\ tier_pc' = "append"
    /\ UNCHANGED <<tier_data, tier_line, tier_result>>

AppendTier ==
    /\ tier_pc = "append"
    /\ tier_result' = append_tier(tier_data, tier_line)
    /\ tier_pc' = "done"
    /\ UNCHANGED <<tier_data, tier_line, tier_annotation>>

---------------------------------------------------------------------------
(* Rewriting a test file: process_testfile, and a second run on the file   *)
(* the first run wrote (cli.py:281-313, 373-393)                           *)

\* the number of lines of a test file
MaxLines == 3

\* the records of the index
ScenarioCase ==
    [title |-> StrValue(Chars("test_foo")),
     caselevel |-> StrValue(Chars("integration")),
     description |-> StrValue(Chars("Check X")),
     caseautomation |-> StrValue(Chars("automated"))]

ManualCase ==
    [title |-> StrValue(Chars("test_foo")),
     caseautomation |-> StrValue(Chars("notautomated")),
     caselevel |-> StrValue(Chars("system"))]

MethodCase ==
    [title |-> StrValue(Chars("TestC.test_foo")),
     assignee |-> StrValue(Chars("jdoe")),
     caseimportance |-> StrValue(Chars("low")),
     caseautomation |-> StrValue(Chars("automated"))]

\* the indexes: none of the tests, the tests with an automated record, the
\* function with a manual record only
ScenarioIndex ==
    [name \in {Chars("test_foo"), Chars("TestC.test_foo")} |->
        IF name = Chars("test_foo") THEN <<ScenarioCase>>
        ELSE <<ManualCase, MethodCase>>]

Indexes ==
    {[name \in {} |-> <<>>],
     ScenarioIndex,
     [name \in {Chars("test_foo")} |-> <<ManualCase>>]}

\* the lines pyinput.readline() gives for a text
LinesOfParts(parts) ==
    [i \in 1..(Len(parts) - 1) |-> parts[i] \o <<"\n">>] \o <<>>
    \o (IF parts[Len(parts)] = <<>> THEN <<>> ELSE <<parts[Len(parts)]>>)

LinesOf(text) == LinesOfParts(SplitText(text, "\n"))

RewriteInit ==
    /\ active_testcases \in Indexes
    /\ pyinput = <<>>
    /\ line_pos = 0
    /\ tiers_info = CurrentTierInit
    /\ tests_info = CurrentTestInit
    /\ last_test = <<>>
    /\ current_data = EmptyData
    /\ manual_tests_seen = <<>>
    /\ modified = FALSE
    /\ newfile = <<>>
    /\ run = 1
    /\ rewrite_pc = "reading"

RewriteIdle ==
    /\ active_testcases = [name \in {} |-> <<>>]
    /\ pyinput = <<>>
    /\ line_pos = 0
    /\ tiers_info = CurrentTierInit
    /\ tests_info = CurrentTestInit
    /\ last_test = <<>>
    /\ current_data = EmptyData
    /\ manual_tests_seen = <<>>
    /\ modified = FALSE
    /\ newfile = <<>>
    /\ run = 0
    /\ rewrite_pc = "idle"

\* the line with the tier line before it, when the tier is missing and
\* the test has metadata
WithTier(tier, polarion_data, string) ==
    IF tier.tier_missing /\ DOMAIN polarion_data # {}
    THEN append_tier(polarion_data, string)
    ELSE string

\* polarion_data or self.DEFAULT_DATA
OrDefault(polarion_data) ==
    IF DOMAIN polarion_data # {} THEN polarion_data ELSE DEFAULT_DATA

\* the line with the doc block before it, when the doc block ends here
WithDocstring(test, polarion_data, string) ==
    IF test.docstring_end
    THEN append_to_docstring(test, OrDefault(polarion_data)) \o string
    ELSE string

\* modified_line: nothing (the empty text) for a line of a doc block
ModifiedLine(tier, test, polarion_data, line) ==
    WithDocstring(test, polarion_data,
        WithTier(tier, polarion_data,
                 IF test.line_is_in_docstring THEN <<>> ELSE line))

\* the body of the loop of process_testfile for one line
ProcessLine(line) ==
    \E tier \in {CurrentTier_process_line(tiers_info, line)},
       test \in {CurrentTest_process_line(tests_info, line)} :
       \E polarion_data \in
             {IF last_test # test.test_name
              THEN get_polarion_data(test.test_name, active_testcases)
              ELSE current_data} :
          /\ tiers_info' = tier
          /\ tests_info' = test
          /\ last_test' = test.test_name
          /\ manual_tests_seen' =
                IF /\ last_test # test.test_name
                   /\ "caseautomation" \in DOMAIN polarion_data
                THEN Append(manual_tests_seen, test.test_name)
                ELSE manual_tests_seen
          /\ modified' = \/ modified
                         \/ tier.tier_missing /\ DOMAIN polarion_data # {}
                         \/ test.docstring_end
          /\ \E string \in {ModifiedLine(tier, test, polarion_data, line)} :
                newfile' = IF string = <<>> THEN newfile
                           ELSE Append(newfile, string)
          \* format_polarion_data changes the metadata in place
          /\ current_data' =
                IF test.docstring_end /\ DOMAIN polarion_data # {}
                THEN TransformedData(polarion_data)
                ELSE polarion_data

\* the first run reads a line of the file
ReadLine ==
    /\ rewrite_pc = "reading"
    /\ run = 1
    /\ Len(pyinput) < MaxLines
    /\ \E line \in SourceLines :
          /\ pyinput' = Append(pyinput, line)
          /\ ProcessLine(line)
    /\ line_pos' = line_pos + 1
    /\ UNCHANGED <<active_testcases, run, rewrite_pc>>

\* readline() gives '': process_testfile returns `modified`
EndOfFile ==
    /\ rewrite_pc = "reading"
    /\ line_pos = Len(pyinput)
    /\ rewrite_pc' = "returned"
    /\ UNCHANGED <<active_testcases, pyinput, line_pos, tiers_info,
                   tests_info, last_test, current_data, manual_tests_seen,
                   modified, newfile, run>>

\* gen_modified_content and overwrite_file write the new text when the run
\* modified the file; then the program is run again on the file
RunAgain ==
    /\ rewrite_pc = "returned"
    /\ run = 1
    /\ pyinput' = IF modified /\ Concat(newfile) # <<>>
                  THEN LinesOf(Concat(newfile))
                  ELSE pyinput
    /\ line_pos' = 0
    /\ tiers_info' = CurrentTierInit
    /\ tests_info' = CurrentTestInit
    /\ last_test' = <<>>
    /\ current_data' = EmptyData
    /\ manual_tests_seen' = <<>>
    /\ modified' = FALSE
    /\ newfile' = <<>>
    /\ run' = 2
    /\ rewrite_pc' = "reading"
    /\ UNCHANGED active_testcases

\* the second run reads the next line of the file
ReadAgain ==
    /\ rewrite_pc = "reading"
    /\ run = 2
    /\ line_pos < Len(pyinput)
    /\ ProcessLine(pyinput[line_pos + 1])
    /\ line_pos' = line_pos + 1
    /\ UNCHANGED <<active_testcases, pyinput, run, rewrite_pc>>

---------------------------------------------------------------------------
(* get_active_testcases: load_active_testcases over the walk of the        *)
(* work-item directories, then strip_parameters                            *)
(* (svn_polarion.py:123-156, cli.py:350-362)                               *)

\* the directories with a workitem.xml, in the order os.walk yields them:
\* two well-formed ids and one without separator
WalkIds == << <<"W", "-", "7">>, <<"W", "-", "8">>, <<"W", "7">> >>

\* the fields of a work-item file of the given type, status and title; ""
\* stands for a field the file does not have
FieldsOf(type, status, title) ==
    [f \in ((IF type = "" THEN {} ELSE {"type"})
            \cup (IF status = "" THEN {} ELSE {"status"})
            \cup (IF title = <<>> THEN {} ELSE {"title"})) |->
        CASE f = "type" -> type
          [] f = "status" -> status
          [] OTHER -> title]

\* the work-item files of the walk: one that does not parse, one of another
\* type, one without type, and testcases that are active, inactive, without
\* status and without title
LoadFiles ==
    { [parse_ok |-> FALSE, fields |-> EmptyDict],
      [parse_ok |-> TRUE,
       fields |-> FieldsOf("requirement", "approved", <<"L">>)],
      [parse_ok |-> TRUE, fields |-> FieldsOf("", "approved", <<"L">>)],
      [parse_ok |-> TRUE,
       fields |-> FieldsOf("testcase", "approved", <<"L", "[", "]">>)],
      [parse_ok |-> TRUE, fields |-> FieldsOf("testcase", "approved", <<"L">>)],
      [parse_ok |-> TRUE, fields |-> FieldsOf("testcase", "inactive", <<"L">>)],
      [parse_ok |-> TRUE, fields |-> FieldsOf("testcase", "", <<"L">>)],
      [parse_ok |-> TRUE, fields |-> FieldsOf("testcase", "approved", <<>>)] }

\* `if not item_cache`: None, or a dict without fields
NoItem(result) == result.kind # "dict" \/ DOMAIN result.fields = {}

\* item_cache.get(field), None (here "") for a field the record lacks
ItemGet(result, field, none) ==
    IF field \in DOMAIN result.fields THEN result.fields[field] ELSE none

\* a variant of IsIndexed that does not look at the status
IsIndexedAnyStatus(result) ==
    /\ ~NoItem(result)
    /\ ItemGet(result, "title", <<>>) # <<>>

\* the body of the loop of load_active_testcases after the lookup: the
\* record is indexed when it is there, has a status other than 'inactive'
\* and a title
IsIndexed(result) ==
    /\ ~NoItem(result)
    /\ ItemGet(result, "status", "") \notin {"", "inactive"}
    /\ ItemGet(result, "title", <<>>) # <<>>

\* `if not (case_id and '*' not in case_id): continue`
SkippedId(case_id) == case_id = <<>> \/ Positions(case_id, "*") # {}

LoadInit ==
    /\ disk \in [{WalkIds[i] : i \in 1..Len(WalkIds)} -> LoadFiles]
    /\ cache = EmptyDict
    /\ load_attempts = [id \in {WalkIds[i] : i \in 1..Len(WalkIds)} |-> 0]
    /\ last_id = <<>>
    /\ last_result = NoneResult
    /\ access_count = 0
    /\ IndexIdle
    /\ walk_pos = 0
    /\ walk_cases = EmptyDict
    /\ load_pc = "walking"

LoadIdle ==
    /\ walk_pos = 0
    /\ walk_cases = EmptyDict
    /\ load_pc = "idle"

\* one iteration of the loop of load_active_testcases; a KeyError of the
\* lookup leaves the loop, and get_active_testcases raises
\* TestcasesException
LoadCase ==
    /\ load_pc = "walking"
    /\ walk_pos < Len(WalkIds)
    /\ walk_pos' = walk_pos + 1
    /\ last_id' = WalkIds[walk_pos + 1]
    /\ IF SkippedId(WalkIds[walk_pos + 1])
       THEN UNCHANGED <<cache, last_result, load_attempts, walk_cases,
                        load_pc>>
       ELSE \E r \in {GetItem(cache, disk, WalkIds[walk_pos + 1])} :
               /\ cache' = r.cache
               /\ last_result' = r.result
               /\ load_attempts' =
                     IF r.loaded
                     THEN [load_attempts EXCEPT ![WalkIds[walk_pos + 1]] = @ + 1]
                     ELSE load_attempts
               /\ load_pc' = IF r.result = KeyErrorRaised THEN "failed"
                             ELSE "walking"
               /\ walk_cases' =
                     IF IsIndexed(r.result)
                     THEN AppendCase(walk_cases, r.result.fields["title"],
                                     WalkIds[walk_pos + 1])
                     ELSE walk_cases
    /\ UNCHANGED <<disk, access_count, indexVars>>

\* the walk is over: `self.available_testcases = cases`; the object is
\* always true, so `if not polarion_testcases` never raises
EndWalk ==
    /\ load_pc = "walking"
    /\ walk_pos = Len(WalkIds)
    /\ available_testcases' = walk_cases
    /\ raw_testcases' = walk_cases
    /\ load_pc' = "loaded"
    /\ UNCHANGED <<cacheVars, prev_testcases, strip_order, strip_count,
                   walk_pos, walk_cases>>

\* polarion_testcases.strip_parameters(), and the return
StripLoaded ==
    /\ load_pc = "loaded"
    /\ StripParameters
    /\ load_pc' = "returned"
    /\ UNCHANGED <<cacheVars, walk_pos, walk_cases>>

---------------------------------------------------------------------------
(* main: one run of the program (cli.py:537-557)                           *)

\* MANUAL_TESTS_FILE, and a test file of the source tree
MANUAL_TESTS_FILE == "cfme/tests/test_manual.py"
TestFile == "cfme/tests/test_a.py"

MainInit ==
    /\ LoadInit
    /\ manual_file \in {"absent", "old"}
    /\ files_fed = {}
    /\ main_pc = "start"

MainIdle ==
    /\ manual_file = "absent"
    /\ files_fed = {}
    /\ main_pc = "idle"

\* os.remove(MANUAL_TESTS_FILE), the OSError of a file that is not there
\* ignored
RemoveManualTests ==
    /\ main_pc = "start"
    /\ manual_file' = "absent"
    /\ main_pc' = "loading"
    /\ UNCHANGED <<files_fed, loadVars, cacheVars, indexVars>>

\* get_active_testcases(args.repo_dir) at work
LoadTestcases ==
    /\ main_pc = "loading"
    /\ LoadCase \/ EndWalk \/ StripLoaded
    /\ UNCHANGED <<manual_file, files_fed, main_pc>>

\* get_active_testcases raised TestcasesException, which main does not
\* catch
LoadRaised ==
    /\ main_pc = "loading"
    /\ load_pc = "failed"
    /\ main_pc' = "raised"
    /\ UNCHANGED <<manual_file, files_fed, loadVars, cacheVars, indexVars>>

\* the loop over get_test_files(): the files under cfme/tests/ with '.py'
\* and 'test_' in their name
RewriteTestFiles ==
    /\ main_pc = "loading"
    /\ load_pc = "returned"
    /\ files_fed' = {TestFile} \cup (IF manual_file = "absent" THEN {}
                                     ELSE {MANUAL_TESTS_FILE})
    /\ main_pc' = "rewritten"
    /\ UNCHANGED <<manual_file, loadVars, cacheVars, indexVars>>

\* overwrite_file(MANUAL_TESTS_FILE, manual_tests): the text holds the
\* header at least
WriteManualTests ==
    /\ main_pc = "rewritten"
    /\ manual_file' = "new"
    /\ main_pc' = "done"
    /\ UNCHANGED <<files_fed, loadVars, cacheVars, indexVars>>

---------------------------------------------------------------------------
(* get_requirement_annotation: the requirement decorator of a manual stub  *)
(* (cli.py:396-415)                                                        *)

\* the longest list of linked work items drawn
MaxLinked == 3

\* REQUIREMENTS_MAP of polarion_pytest.requirements_mapping (not part of
\* the sources at hand): requirement name -> ids
REQUIREMENTS_MAP ==
    [auth |-> <<Chars("R1")>>, report |-> <<Chars("R2"), Chars("R3")>>]

\* get_requirements_db: id -> requirement name
get_requirements_db ==
    [req_id \in UNION {{REQUIREMENTS_MAP[name][i] :
                           i \in 1..Len(REQUIREMENTS_MAP[name])} :
                       name \in DOMAIN REQUIREMENTS_MAP} |->
        CHOOSE name \in DOMAIN REQUIREMENTS_MAP :
            \E i \in 1..Len(REQUIREMENTS_MAP[name]) :
                REQUIREMENTS_MAP[name][i] = req_id]

\* the ids a record may link: two of the table and one that is not in it
LinkedIds == {Chars("R1"), Chars("R2"), Chars("R9")}

\* the values of linkedWorkItems: no value, a text, the lists of ids
LinkedValues ==
    {NoneValue, StrValue(Chars("R1"))}
    \cup {ListValue(ids) : ids \in SeqsUpTo(LinkedIds, MaxLinked)}

\* req.pop(): the last item of the list
Popped(req) == req[Len(req)]

\* req_db.get(req), and the decorator of the name found
RequirementAnnotation(req_db, req) ==
    IF req \in DOMAIN req_db
    THEN Chars("@test_requirements.") \o Chars(req_db[req])
    ELSE <<>>

\* None is the empty text
get_requirement_annotation(polarion_data, req_db) ==
    IF ~Truthy(DictGet(polarion_data, "linkedWorkItems")) THEN <<>>
    ELSE RequirementAnnotation(req_db,
                               Popped(polarion_data["linkedWorkItems"].v))

ReqInit ==
    /\ \E fields \in SUBSET {"linkedWorkItems", "caseimportance"} :
          req_data \in {data \in [fields -> LinkedValues
                                     \cup {StrValue(Chars("low"))}] :
                           /\ "linkedWorkItems" \in fields =>
                                 data["linkedWorkItems"] \in LinkedValues
                           /\ "caseimportance" \in fields =>
                                 data["caseimportance"] = StrValue(Chars("low"))}
    /\ req_given = req_data
    /\ req_annotation = <<>>
    /\ req_pc = "call"

ReqIdle ==
    /\ req_data = EmptyData
    /\ req_given = EmptyData
    /\ req_annotation = <<>>
    /\ req_pc = "idle"

\* get_requirement_annotation(polarion_data, req_db); a text has no pop(),
\* so the call raises AttributeError for it
GetRequirementAnnotation ==
    /\ req_pc = "call"
    /\ IF /\ Truthy(DictGet(req_data, "linkedWorkItems"))
          /\ req_data["linkedWorkItems"].t = "str"
       THEN /\ req_pc' = "raised"
            /\ req_data' = DictDel(req_data, "linkedWorkItems")
            /\ UNCHANGED req_annotation
       ELSE /\ req_annotation' =
                  get_requirement_annotation(req_data, get_requirements_db)
            /\ req_data' =
                  IF Truthy(DictGet(req_data, "linkedWorkItems"))
                  THEN DictDel(req_data, "linkedWorkItems")
                  ELSE req_data
            /\ req_pc' = "done"
    /\ UNCHANGED req_given

---------------------------------------------------------------------------
(* The scanner alone: CurrentTest.process_line over the lines of a file    *)
(* with signatures of more than one line (testinfo.py:106-143)             *)

\* the longest file scanned
MaxScan == 6

ScanLines ==
    {Chars("def test_foo():\n"),
     Chars("def test_foo(x,\n"),
     Chars("        y,\n"),
     Chars("        z):\n"),
     Chars("    pass\n"),
     Chars("    \"\"\"\n"),
     Chars("    \"\"\"Doc.\"\"\"\n"),
     Chars("\n")}

ScanInit ==
    /\ scan_input = <<>>
    /\ scan_test = CurrentTestInit

ScanIdle ==
    /\ scan_input = <<>>
    /\ scan_test = CurrentTestInit

\* process_line on the next line of the file
ScanLine ==
    /\ Len(scan_input) < MaxScan
    /\ \E line \in ScanLines :
          /\ scan_input' = Append(scan_input, line)
          /\ scan_test' = CurrentTest_process_line(scan_test, line)

---------------------------------------------------------------------------
(* The run after the load: the tests the rewriter registers, then          *)
(* gen_manual_testcases (cli.py:295-308, 486-515; svn_polarion.py:158-170) *)
(* over a cache and an index that are built.  A record of the cache and    *)
(* the metadata filtered from it are two dicts that share their values, so *)
(* a change made in place to a list reaches the record.                    *)

\* the number of tests registered while the files are rewritten
MaxTests == 2

\* the work items, in the order of the walk
GenIds == <<"W-1", "W-2", "W-3">>

\* the records of the cache: an automated test, two variants of a manual
\* test case, a manual test case whose title gives the same function name,
\* one with linked work items (a text, as __getitem__ stores every field
\* but the steps), and the manual record of a test of the sources
GenRecords ==
    {[title |-> StrValue(Chars("test_foo")),
      caseautomation |-> StrValue(Chars("automated")),
      caselevel |-> StrValue(Chars("integration")),
      testSteps |-> ListValue(<<Chars("open"), Chars("2. close")>>),
      expectedResults |-> ListValue(<<Chars("opened"), Chars("closed")>>)],
     [title |-> StrValue(Chars("log in")),
      caseautomation |-> StrValue(Chars("notautomated")),
      testSteps |-> ListValue(<<Chars("type the name")>>),
      expectedResults |-> ListValue(<<>>)],
     [title |-> StrValue(Chars("log in")),
      caselevel |-> StrValue(Chars("system"))],
     [title |-> StrValue(Chars("log-in")),
      caseautomation |-> StrValue(Chars("notautomated"))],
     [title |-> StrValue(Chars("linked")),
      caseautomation |-> StrValue(Chars("notautomated")),
      linkedWorkItems |-> StrValue(Chars(" "))],
     [title |-> StrValue(Chars("test_foo")),
      caseautomation |-> StrValue(Chars("notautomated"))]}

\* the names the scanner may register
GenNames == {Chars("test_foo"), Chars("test_bar"), Chars("TestC.test_foo")}

\* the index load_active_testcases builds over the walk
IndexBuilt(records) ==
    GroupByTitle(EmptyDict, GenIds,
                 [id \in DOMAIN records |-> records[id]["title"].v])

\* a variant in which steps.pop(0) takes the first item of the list given
StepsAfterFormatPopped(steps) ==
    IF steps = <<>> THEN steps ELSE Tail(steps)

\* the list object given to _format_steps, after the call: the loop pops
\* from the list textwrap.wrap returned, which the name `steps` is bound to
\* by then, so the argument keeps its items
StepsAfterFormat(steps) == steps

\* the record after format_polarion_data has rendered the metadata filtered
\* from it: the lists of steps are the ones given to _format_steps, every
\* other change is made to the keys of the filtered dict
RecordAfterFormat(record) ==
    [field \in DOMAIN record |->
        IF field \in {"testSteps", "expectedResults"}
           /\ Truthy(record[field]) /\ record[field].t = "list"
        THEN ListValue(StepsAfterFormat(record[field].v))
        ELSE record[field]]

\* the records of the ids, in order
RecordsOf(case_ids, records) ==
    [i \in 1..Len(case_ids) |-> records[case_ids[i]]]

\* the index as get_polarion_data reads it: name -> records
NamedRecords(testcases, records) ==
    [name \in DOMAIN testcases |-> RecordsOf(testcases[name], records)]

\* the id get_by_name(name, automated=True) returns the record of
AutomatedIds(case_ids, records) ==
    SelectSeq(case_ids, LAMBDA id : IsAutomated(records[id]))

\* get_manual_testcases: title -> the ids whose record is not automated,
\* for the titles that have one
ManualIds(case_ids, records) ==
    SelectSeq(case_ids, LAMBDA id : ~IsAutomated(records[id]))

get_manual_testcases(testcases, records) ==
    [case_title \in {t \in DOMAIN testcases :
                        ManualIds(testcases[t], records) # <<>>} |->
        ManualIds(testcases[case_title], records)]

\* set(manual_testcases) - set(tests_transform.manual_tests_seen)
ToProcess(manual_testcases, seen) ==
    DOMAIN manual_testcases \ {seen[i] : i \in 1..Len(seen)}

\* polarion_data.get('title') or test_name
StubTitle(polarion_data, test_name) ==
    IF Truthy(DictGet(polarion_data, "title"))
    THEN polarion_data["title"].v ELSE test_name

\* get_requirement_annotation raises AttributeError: the linked work items
\* are a text, which has no pop()
PopRaises(polarion_data) ==
    /\ Truthy(DictGet(polarion_data, "linkedWorkItems"))
    /\ polarion_data["linkedWorkItems"].t = "str"

\* the stub add_manual_test writes for a record: the title it is listed
\* under, the id of the record, the name of the function
StubOf(test_name, id, polarion_data) ==
    [test_name |-> test_name, id |-> id,
     name |-> ManualTestName(StubTitle(polarion_data, test_name))]

\* the ids gen_manual_testcases goes through: for each title in the order
\* of the iteration, the ids _get_manual_polarion_data keeps
RECURSIVE StubPairs(_, _, _)
StubPairs(order, testcases, records) ==
    IF order = <<>> THEN <<>>
    ELSE [i \in 1..Len(ManualIds(testcases[order[1]], records)) |->
             <<order[1], ManualIds(testcases[order[1]], records)[i]>>]
         \o StubPairs(Tail(order), testcases, records)

\* the loop of gen_manual_testcases over those ids: the stubs written and
\* the cache, until add_manual_test raises
RECURSIVE GenLoop(_, _, _)
GenLoop(pairs, stubs, records) ==
    IF pairs = <<>> THEN [stubs |-> stubs, records |-> records,
                          raised |-> FALSE]
    ELSE IF PopRaises(FilteredOrNone(records[pairs[1][2]]))
    THEN [stubs |-> stubs, records |-> records, raised |-> TRUE]
    ELSE GenLoop(Tail(pairs),
                 Append(stubs,
                        StubOf(pairs[1][1], pairs[1][2],
                               FilteredOrNone(records[pairs[1][2]]))),
                 [records EXCEPT ![pairs[1][2]] = RecordAfterFormat(@)])

GenInit ==
    /\ gen_cache \in [{GenIds[i] : i \in 1..Len(GenIds)} -> GenRecords]
    /\ gen_built = gen_cache
    /\ gen_index = IndexBuilt(gen_cache)
    /\ gen_seen = <<>>
    /\ gen_stubs = <<>>
    /\ gen_tests = 0
    /\ gen_pc = "rewriting"

GenIdle ==
    /\ gen_cache = EmptyDict
    /\ gen_built = EmptyDict
    /\ gen_index = EmptyDict
    /\ gen_seen = <<>>
    /\ gen_stubs = <<>>
    /\ gen_tests = 0
    /\ gen_pc = "idle"

\* process_testfile, as far as the cache and the seen tests go: a test is
\* registered, its metadata resolved, and, when its doc block ends, the
\* metadata rendered
RewriteTest ==
    /\ gen_pc = "rewriting"
    /\ gen_tests < MaxTests
    /\ \E test_name \in GenNames, rendered \in BOOLEAN :
       \E polarion_data \in
             {get_polarion_data(test_name,
                                NamedRecords(gen_index, gen_cache))} :
          /\ gen_seen' = IF "caseautomation" \in DOMAIN polarion_data
                         THEN Append(gen_seen, test_name)
                         ELSE gen_seen
          /\ gen_cache' =
                IF rendered /\ DOMAIN polarion_data # {}
                THEN [gen_cache EXCEPT
                        ![Head(AutomatedIds(gen_index[test_name],
                                            gen_cache))] =
                            RecordAfterFormat(@)]
                ELSE gen_cache
    /\ gen_tests' = gen_tests + 1
    /\ UNCHANGED <<gen_built, gen_index, gen_stubs, gen_pc>>

\* the loop of main over the test files ends
EndRewrite ==
    /\ gen_pc = "rewriting"
    /\ gen_pc' = "rewritten"
    /\ UNCHANGED <<gen_cache, gen_built, gen_index, gen_seen, gen_stubs,
                   gen_tests>>

\* gen_manual_testcases: the titles are iterated in the order of a set
GenManualTestcases ==
    /\ gen_pc = "rewritten"
    /\ \E order \in Orders(ToProcess(get_manual_testcases(gen_index,
                                                          gen_cache),
                                     gen_seen)) :
       \E result \in {GenLoop(StubPairs(order, gen_index, gen_cache),
                              <<>>, gen_cache)} :
          /\ gen_cache' = result.records
          /\ gen_stubs' = IF result.raised THEN <<>> ELSE result.stubs
          /\ gen_pc' = IF result.raised THEN "raised" ELSE "done"
    /\ UNCHANGED <<gen_built, gen_index, gen_seen, gen_tests>>

---------------------------------------------------------------------------
(* The specifications.                                                     *)

PathNext ==
    /\ GetPath
    /\ UNCHANGED <<indexVars, cacheVars, stubVars, renderVars,
                 tierVars, rewriteVars, loadVars, mainVars,
                 reqVars, scanVars, genVars>>

InitPath ==
    /\ PathInit
    /\ IndexIdle
    /\ CacheIdle
    /\ StubIdle
    /\ RenderIdle
    /\ TierIdle
    /\ RewriteIdle
    /\ LoadIdle
    /\ MainIdle
    /\ ReqIdle
    /\ ScanIdle
    /\ GenIdle

SpecPath == InitPath /\ [][PathNext]_vars

IndexNext ==
    /\ StripParameters
    /\ UNCHANGED <<pathVars, cacheVars, stubVars, renderVars,
                 tierVars, rewriteVars, loadVars, mainVars,
                 reqVars, scanVars, genVars>>

InitIndex ==
    /\ IndexInit
    /\ PathIdle
    /\ CacheIdle
    /\ StubIdle
    /\ RenderIdle
    /\ TierIdle
    /\ RewriteIdle
    /\ LoadIdle
    /\ MainIdle
    /\ ReqIdle
    /\ ScanIdle
    /\ GenIdle

SpecIndex == InitIndex /\ [][IndexNext]_vars

CacheNext ==
    /\ \E id \in WorkItemIds : Access(id)
    /\ UNCHANGED <<pathVars, indexVars, stubVars, renderVars,
                 tierVars, rewriteVars, loadVars, mainVars,
                 reqVars, scanVars, genVars>>

InitCache ==
    /\ CacheInit
    /\ PathIdle
    /\ IndexIdle
    /\ StubIdle
    /\ RenderIdle
    /\ TierIdle
    /\ RewriteIdle
    /\ LoadIdle
    /\ MainIdle
    /\ ReqIdle
    /\ ScanIdle
    /\ GenIdle

SpecCache == InitCache /\ [][CacheNext]_vars

StubNext ==
    /\ AddManualTest
    /\ UNCHANGED <<pathVars, indexVars, cacheVars, renderVars,
                 tierVars, rewriteVars, loadVars, mainVars,
                 reqVars, scanVars, genVars>>

InitStub ==
    /\ StubInit
    /\ PathIdle
    /\ IndexIdle
    /\ CacheIdle
    /\ RenderIdle
    /\ TierIdle
    /\ RewriteIdle
    /\ LoadIdle
    /\ MainIdle
    /\ ReqIdle
    /\ ScanIdle
    /\ GenIdle

SpecStub == InitStub /\ [][StubNext]_vars

RenderNext ==
    /\ FilterFields
       \/ FormatData
    /\ UNCHANGED <<pathVars, indexVars, cacheVars, stubVars,
                 tierVars, rewriteVars, loadVars, mainVars,
                 reqVars, scanVars, genVars>>

InitRender ==
    /\ RenderInit
    /\ PathIdle
    /\ IndexIdle
    /\ CacheIdle
    /\ StubIdle
    /\ TierIdle
    /\ RewriteIdle
    /\ LoadIdle
    /\ MainIdle
    /\ ReqIdle
    /\ ScanIdle
    /\ GenIdle

SpecRender == InitRender /\ [][RenderNext]_vars

TierNext ==
    /\ GetTierAnnotation
       \/ AppendTier
    /\ UNCHANGED <<pathVars, indexVars, cacheVars, stubVars,
                 renderVars, rewriteVars, loadVars, mainVars,
                 reqVars, scanVars, genVars>>

InitTier ==
    /\ TierInit
    /\ PathIdle
    /\ IndexIdle
    /\ CacheIdle
    /\ StubIdle
    /\ RenderIdle
    /\ RewriteIdle
    /\ LoadIdle
    /\ MainIdle
    /\ ReqIdle
    /\ ScanIdle
    /\ GenIdle

SpecTier == InitTier /\ [][TierNext]_vars

RewriteNext ==
    /\ ReadLine
       \/ EndOfFile
    /\ UNCHANGED <<pathVars, indexVars, cacheVars, stubVars,
                 renderVars, tierVars, loadVars, mainVars,
                 reqVars, scanVars, genVars>>

InitRewrite ==
    /\ RewriteInit
    /\ PathIdle
    /\ IndexIdle
    /\ CacheIdle
    /\ StubIdle
    /\ RenderIdle
    /\ TierIdle
    /\ LoadIdle
    /\ MainIdle
    /\ ReqIdle
    /\ ScanIdle
    /\ GenIdle

SpecRewrite == InitRewrite /\ [][RewriteNext]_vars

RerunNext ==
    /\ ReadLine
       \/ EndOfFile
       \/ RunAgain
       \/ ReadAgain
    /\ UNCHANGED <<pathVars, indexVars, cacheVars, stubVars,
                 renderVars, tierVars, loadVars, mainVars,
                 reqVars, scanVars, genVars>>

SpecRerun == InitRewrite /\ [][RerunNext]_vars

LoadNext ==
    /\ LoadCase
       \/ EndWalk
       \/ StripLoaded
    /\ UNCHANGED <<pathVars, stubVars, renderVars, tierVars,
                 rewriteVars, mainVars, reqVars, scanVars,
                 genVars>>

InitLoad ==
    /\ LoadInit
    /\ PathIdle
    /\ StubIdle
    /\ RenderIdle
    /\ TierIdle
    /\ RewriteIdle
    /\ MainIdle
    /\ ReqIdle
    /\ ScanIdle
    /\ GenIdle

SpecLoad == InitLoad /\ [][LoadNext]_vars

MainNext ==
    /\ RemoveManualTests
       \/ LoadTestcases
       \/ LoadRaised
       \/ RewriteTestFiles
       \/ WriteManualTests
    /\ UNCHANGED <<pathVars, stubVars, renderVars, tierVars,
                 rewriteVars, reqVars, scanVars, genVars>>

InitMain ==
    /\ MainInit
    /\ PathIdle
    /\ StubIdle
    /\ RenderIdle
    /\ TierIdle
    /\ RewriteIdle
    /\ ReqIdle
    /\ ScanIdle
    /\ GenIdle

SpecMain == InitMain /\ [][MainNext]_vars

ReqNext ==
    /\ GetRequirementAnnotation
    /\ UNCHANGED <<pathVars, indexVars, cacheVars, stubVars,
                 renderVars, tierVars, rewriteVars, loadVars,
                 mainVars, scanVars, genVars>>

InitReq ==
    /\ ReqInit
    /\ PathIdle
    /\ IndexIdle
    /\ CacheIdle
    /\ StubIdle
    /\ RenderIdle
    /\ TierIdle
    /\ RewriteIdle
    /\ LoadIdle
    /\ MainIdle
    /\ ScanIdle
    /\ GenIdle

SpecReq == InitReq /\ [][ReqNext]_vars

ScanNext ==
    /\ ScanLine
    /\ UNCHANGED <<pathVars, indexVars, cacheVars, stubVars,
                 renderVars, tierVars, rewriteVars, loadVars,
                 mainVars, reqVars, genVars>>

InitScan ==
    /\ ScanInit
    /\ PathIdle
    /\ IndexIdle
    /\ CacheIdle
    /\ StubIdle
    /\ RenderIdle
    /\ TierIdle
    /\ RewriteIdle
    /\ LoadIdle
    /\ MainIdle
    /\ ReqIdle
    /\ GenIdle

SpecScan == InitScan /\ [][ScanNext]_vars

GenNext ==
    /\ RewriteTest
       \/ EndRewrite
       \/ GenManualTestcases
    /\ UNCHANGED <<pathVars, indexVars, cacheVars, stubVars,
                 renderVars, tierVars, rewriteVars, loadVars,
                 mainVars, reqVars, scanVars>>

InitGen ==
    /\ GenInit
    /\ PathIdle
    /\ IndexIdle
    /\ CacheIdle
    /\ StubIdle
    /\ RenderIdle
    /\ TierIdle
    /\ RewriteIdle
    /\ LoadIdle
    /\ MainIdle
    /\ ReqIdle
    /\ ScanIdle

SpecGen == InitGen /\ [][GenNext]_vars

---------------------------------------------------------------------------
(* C5: for every title the function name of the manual stub is lowercase,  *)
(* matches ^test_[a-z0-9_]+$ and is at most 85 characters long.            *)
C5_StubNameValid ==
    stub_pc = "done" =>
        /\ \A i \in 1..Len(stub_name) :
              stub_name[i] \in LowerLetters \cup Digits \cup {"_"}
        /\ MatchAt(stub_name, TEST_, 1)
        /\ Len(stub_name) > Len(TEST_)
        /\ Len(stub_name) <= 85

(* C6: strip_parameters is idempotent on the index (a second call leaves   *)
(* the title -> id-list mapping as the first call made it), and the ids of *)
(* raw titles that normalize to one string are concatenated, list by list, *)
(* in the order the call saw the titles, no id lost or duplicated.         *)
RECURSIVE ConcatFor(_, _, _)
ConcatFor(order, cases, keep) ==
    IF order = <<>> THEN <<>>
    ELSE (IF order[1] \in keep THEN cases[order[1]] ELSE <<>>)
             \o ConcatFor(Tail(order), cases, keep)

Occurrences(cases, id) ==
    Cardinality({<<t, i>> \in UNION {{t} \X (1..Len(cases[t])) : t \in DOMAIN cases} :
                    cases[t][i] = id})

InvalidId(id) ==
    \/ BadFormat(id)
    \/ ~disk[id].parse_ok
    \/ ("type" \in DOMAIN disk[id].fields /\ disk[id].fields["type"] # "testcase")

C10_InvalidAlwaysNone ==
    /\ (access_count > 0 /\ InvalidId(last_id)) => last_result = NoneResult
    /\ \A id \in WorkItemIds : InvalidId(id) => load_attempts[id] <= 1

(* C7: get_path(31942) is "30000-39999/31000-31999/31900-31999", and for   *)
(* an id of d >= 3 digits the path has d-2 components, each a              *)
(* decade-aligned range lo-hi containing the id, each nested in the        *)
(* previous one, the last of width 100.                                    *)
C7_PathSharding ==
    path_pc = "done" =>
        /\ (num = 31942 =>
                path_result = "30000-39999/31000-31999/31900-31999")
        /\ (DigLen(num) >= 3 =>
                /\ Len(paths) = DigLen(num) - 2
                /\ \A k \in 1..Len(paths) :
                      LET w == Pow10(DigLen(num) - k)
                      IN  /\ paths[k].lo <= num /\ num <= paths[k].hi
                          /\ paths[k].lo % w = 0
                          /\ paths[k].hi = paths[k].lo + w - 1
                          /\ (k > 1 => /\ paths[k - 1].lo <= paths[k].lo
                                       /\ paths[k].hi <= paths[k - 1].hi)
                /\ paths[Len(paths)].hi - paths[Len(paths)].lo + 1 = 100
                /\ path_result =
                      Join("/", [k \in 1..Len(paths) |-> FormatRange(paths[k])]))

C7_Witness ==
    /\ path_pc = "done"
    /\ num = 31942
    /\ Len(paths) = 3

(* C8 as stated: every id of one to three digits, 999 included, yields the *)
(* empty path.                                                             *)
C8_Original ==
    (path_pc = "done" /\ DigLen(num) <= 3) => path_result = ""

(* C8 amended: every id of one or two digits yields the empty path; an id  *)
(* of three digits yields the single component of its hundred, so          *)
(* get_path(999) is "900-999".                                             *)
C8_PathBoundary ==
    path_pc = "done" =>
        /\ (DigLen(num) <= 2 => path_result = "" /\ paths = <<>>)
        /\ (DigLen(num) = 3 =>
                /\ Len(paths) = 1
                /\ paths[1].lo = (num \div 100) * 100
                /\ paths[1].hi = paths[1].lo + 99)
        /\ (num = 999 => path_result = "900-999")

C8_Witness ==
    /\ path_pc = "done"
    /\ num = 999
    /\ path_result # ""

(* C9, as stated: a field appears in the rendered metadata block if and    *)
(* only if its value differs from its documented default, or it is a       *)
(* required field without a value.                                         *)
FieldAppears(lines, field) ==
    \E i \in 1..Len(lines) : MatchAt(lines[i], Chars(field) \o <<":">>, 1)

HasValue(data, field) == Truthy(DictGet(data, field))

DiffersFromDefault(data, field) ==
    /\ HasValue(data, field)
    /\ data[field] # StrValue(Chars(POLARION_FIELDS[field]))

RequiredNull(data, field) ==
    field \in REQUIRED_FIELDS /\ ~HasValue(data, field)

BlankValue(field, value) ==
    CASE value.t = "list" -> Len(value.v) = 1 /\ value.v[1] = <<>>
      [] field \in {"linkedWorkItems", "casecomponent"} -> FALSE
      [] field \in VALID_VALUES -> IsBlank(value.v)
      [] OTHER -> IsBlank(_sanitize_string(value.v))

\* the fields format_polarion_data leaves out whatever their value
NotRendered(data, field) ==
    \/ field \in {"caseautomation", "caselevel", "description",
                  "work_item_id"}
    \/ /\ field \in MANUAL_ONLY_FIELDS
       /\ ~DiffersFromDefault(data, "caseautomation")
    \/ /\ field = "title"
       /\ HasValue(data, field)
       /\ Contains(data[field].v, TEST_)
       /\ Len(data[field].v) <= NameLimit
    \/ /\ field \notin REQUIRED_FIELDS
       /\ HasValue(data, field)
       /\ BlankValue(field, data[field])

---------------------------------------------------------------------------
(* C4: for every metadata set get_tier_annotation returns no annotation    *)
(* when caselevel is absent or equals its default, and otherwise the line  *)
(* `@pytest.mark.tier(N)` with N the tier of the caselevel ("integration"  *)
(* gives 2); append_tier puts that line directly before the given line,    *)
(* behind the given line's own indentation.                                *)

\* the caselevel of a metadata set and whether it stands for a tier
LevelOf(data) ==
    IF "caselevel" \in DOMAIN data THEN data["caselevel"].v
    ELSE Chars(POLARION_FIELDS["caselevel"])

HasTier(data) == LevelOf(data) # Chars(POLARION_FIELDS["caselevel"])

---------------------------------------------------------------------------
(* C2: for the file of the function `def test_foo():` without indent, doc  *)
(* block and decorators, and an index with a matching automated test case  *)
(* with caselevel "integration" and description "Check X", the rewritten   *)
(* text has `@pytest.mark.tier(2)` directly before the `def` line and,     *)
(* after the `def` line, a doc block with the header and the metadata      *)
(* block.                                                                  *)

ScenarioFile == <<Chars("def test_foo():\n"), Chars("    pass\n")>>

ScenarioRun ==
    /\ rewrite_pc = "returned"
    /\ run = 1
    /\ active_testcases = ScenarioIndex
    /\ pyinput = ScenarioFile

\* the claim as stated: the doc block holds the description as well
C2_Original ==
    ScenarioRun =>
        /\ Prefix(Concat(newfile), 37)
              = Chars("@pytest.mark.tier(2)\ndef test_foo():\n")
        /\ Contains(Concat(newfile), Chars("def test_foo():\n    \"\"\"\n"))
        /\ Contains(Concat(newfile), Chars("    Polarion:\n"))
        /\ Contains(Concat(newfile), Chars("Check X"))

\* the doc block is the header and the required fields; the description is
\* not written
C2_Scenario ==
    ScenarioRun =>
        /\ modified
        /\ Concat(newfile) =
              Chars("@pytest.mark.tier(2)\n")
              \o Chars("def test_foo():\n")
              \o Chars("    \"\"\"\n")
              \o Chars("    Polarion:\n")
              \o Chars("        assignee: None\n")
              \o Chars("        casecomponent: None\n")
              \o Chars("        initialEstimate: None\n")
              \o Chars("    \"\"\"\n")
              \o Chars("    pass\n")
        /\ ~Contains(Concat(newfile), Chars("Check X"))

C2_Witness == ScenarioRun /\ modified /\ Len(newfile) = 2

---------------------------------------------------------------------------
(* C3: for every test function whose signature is followed by a line that  *)
(* does not start a doc block, a complete new doc block is written         *)
(* directly before that line, indented 4 columns for a function of the     *)
(* module and 8 columns for a method inside a class.                       *)

\* the lines read that are the signature of a test
IsSignature(line) ==
    /\ ~Contains(line, CLASS_TEST)
    /\ Contains(line, DEF_TEST)
    /\ TEST_NAME(line) # <<>>

SignaturesRead == {i \in 1..line_pos : IsSignature(pyinput[i])}

\* the lines without indent before line i that are not blank
TopLevelBefore(i) ==
    {j \in 1..(i - 1) :
        IndentOf(pyinput[j]) = 0 /\ Strip(pyinput[j], Whitespace) # <<>>}

\* line i is inside a class: the last line without indent before it
\* starts one
InsideClass(i) ==
    /\ TopLevelBefore(i) # {}
    /\ MatchAt(pyinput[SetMax(TopLevelBefore(i))], Chars("class "), 1)

\* the text written for the line is a new doc block of that indent, then
\* the line
NewDocBlock(text, indent, line) ==
    /\ Prefix(text, 2 * indent + 13)
          = Spaces(indent) \o QUOTES \o <<"\n">>
            \o Spaces(indent) \o Chars("Polarion:")
    /\ EndsWith(text, <<"\n">> \o Spaces(indent) \o QUOTES \o <<"\n">>
                      \o line)

C3_NewDocBlockIndent ==
    /\ rewrite_pc = "reading"
    /\ tests_info.docstring_end
    /\ tests_info.docstring_data = <<>>
    /\ SignaturesRead # {}
    => /\ IndentOf(pyinput[SetMax(SignaturesRead)]) = 0 =>
             NewDocBlock(newfile[Len(newfile)], 4, pyinput[line_pos])
       /\ /\ IndentOf(pyinput[SetMax(SignaturesRead)]) > 0
          /\ InsideClass(SetMax(SignaturesRead))
          => NewDocBlock(newfile[Len(newfile)], 8, pyinput[line_pos])

---------------------------------------------------------------------------
(* C1: a second run of process_testfile on the text the first run wrote,   *)
(* with the same index and records, returns modified = false and writes    *)
(* the text it read.                                                       *)

C1_SecondRunIdempotent ==
    rewrite_pc = "returned" /\ run = 2 =>
        /\ ~modified
        /\ Concat(newfile) = Concat(pyinput)

---------------------------------------------------------------------------
(* C11: after load_active_testcases, and still after strip_parameters,     *)
(* every id listed under a title of available_testcases is the id of a     *)
(* cached valid record of type "testcase" whose status is present and not  *)
(* "inactive"; the ids of invalid, inactive and status-less records are    *)
(* not in the index.                                                       *)

\* the ids the index lists
IndexedIds ==
    UNION {{available_testcases[title][i] :
               i \in 1..Len(available_testcases[title])} :
           title \in DOMAIN available_testcases}

\* the id has a cached record of an active test case, loaded from a file
\* that is one
ActiveRecord(id) ==
    /\ id \in DOMAIN cache
    /\ cache[id].kind = "dict"
    /\ "type" \in DOMAIN cache[id].fields
    /\ cache[id].fields["type"] = "testcase"
    /\ "status" \in DOMAIN cache[id].fields
    /\ cache[id].fields["status"] # "inactive"
    /\ ~BadFormat(id)
    /\ disk[id].parse_ok
    /\ "status" \in DOMAIN disk[id].fields

C11_IndexOnlyActive ==
    load_pc \in {"loaded", "returned"} =>
        \A id \in IndexedIds : ActiveRecord(id)

C11_Witness ==
    /\ load_pc = "returned"
    /\ IndexedIds # {}
    /\ \E id \in DOMAIN cache : cache[id] = InvalidObject
    /\ \E id \in DOMAIN cache :
          /\ cache[id].kind = "dict"
          /\ ItemGet(cache[id], "status", "") = "inactive"
          /\ id \notin IndexedIds

---------------------------------------------------------------------------
(* C12: a record that is corrupt, does not parse, is of another type or    *)
(* has no `type` field never aborts load_active_testcases; it becomes      *)
(* permanently invalid and is skipped, and the other records are indexed.  *)

\* the record of the id is not a usable test case
BadRecord(id) ==
    \/ BadFormat(id)
    \/ ~disk[id].parse_ok
    \/ "type" \notin DOMAIN disk[id].fields
    \/ disk[id].fields["type"] # "testcase"

C12_ErrorsContained ==
    /\ load_pc # "failed"
    /\ \A i \in 1..walk_pos :
          BadRecord(WalkIds[i]) => cache[WalkIds[i]] = InvalidObject

---------------------------------------------------------------------------
(* C13: process_testfile returns modified = true exactly when a tier line  *)
(* or a metadata block was inserted into the output, so that modified =    *)
(* true implies that the output text differs from the input text.          *)

C13_ModifiedMeansChanged ==
    rewrite_pc = "returned" /\ modified =>
        Concat(newfile) # Concat(pyinput)

---------------------------------------------------------------------------
(* C14: every run deletes the old manual-tests file first and then writes  *)
(* a new one, so that no run ends with the old file deleted and no new     *)
(* one written; the file is deleted before the source tree is walked and   *)
(* so is never given to the rewriter.                                      *)

C14_ManualFileRegenerated ==
    /\ main_pc \in {"done", "raised"} => manual_file = "new"
    /\ MANUAL_TESTS_FILE \notin files_fed

---------------------------------------------------------------------------
(* C15: for metadata with a non-empty list of linked work items the        *)
(* requirement decorator is derived from the first linked item only,       *)
(* looked up in the requirement table; no decorator is emitted when the    *)
(* first item is not in the table.                                         *)

C15_FirstLinkedItem ==
    /\ req_pc = "done"
    /\ "linkedWorkItems" \in DOMAIN req_given
    /\ req_given["linkedWorkItems"].t = "list"
    /\ req_given["linkedWorkItems"].v # <<>>
    => req_annotation =
          RequirementAnnotation(get_requirements_db,
                                req_given["linkedWorkItems"].v[1])

---------------------------------------------------------------------------
(* C16: a decorator tier line counts for a class or test only when it is   *)
(* the line right before the class/def line: a pending tier is discarded   *)
(* by any line that is not a class/def line, so the tier of a method or of *)
(* a class is set only when the line before it is a decorator tier line.   *)

\* the line just processed in the first run, and the one before it
LineRead == pyinput[line_pos]
LineBefore == pyinput[line_pos - 1]

IsTierDecorator(line) == TierFound(line, TIER_DEC) # ""

C16_PendingTierDiscarded ==
    run = 1 /\ line_pos >= 1 /\ ~IsTierDecorator(LineRead)
    => /\ tiers_info._tier_pending = ""
       /\ /\ TierFound(LineRead, TIER_MOD) = ""
          /\ \/ Contains(LineRead, CLASS_TEST) /\ tiers_info._class # ""
             \/ /\ ~Contains(LineRead, CLASS_TEST)
                /\ Contains(LineRead, DEF_TEST)
                /\ tiers_info._method # ""
          => line_pos >= 2 /\ IsTierDecorator(LineBefore)

---------------------------------------------------------------------------
(* C17: after a line, tier_missing is true exactly when the line is a      *)
(* test-function definition and no tier is declared at method level (a     *)
(* decorator on this def), at class level (a decorator on the enclosing    *)
(* class, cleared by a new class or by a test def without indent) or at    *)
(* module level; after every other line it is false.                       *)

\* line i starts a class
StartsClass(i) == MatchAt(pyinput[i], Chars("class "), IndentOf(pyinput[i]) + 1)

\* the lines before line i that end the scope of a class: a new class, a
\* test def without indent
ScopeChanges(i) ==
    {j \in 1..(i - 1) :
        \/ StartsClass(j)
        \/ IsSignature(pyinput[j]) /\ IndentOf(pyinput[j]) = 0}

MethodTierDeclared(i) == i >= 2 /\ IsTierDecorator(pyinput[i - 1])

ClassTierDeclared(i) ==
    /\ IndentOf(pyinput[i]) > 0
    /\ ScopeChanges(i) # {}
    /\ StartsClass(SetMax(ScopeChanges(i)))
    /\ MethodTierDeclared(SetMax(ScopeChanges(i)))

ModuleTierDeclared(i) ==
    \E j \in 1..(i - 1) :
        /\ ~IsTierDecorator(pyinput[j])
        /\ TierFound(pyinput[j], TIER_MOD) # ""

C17_TierMissingExact ==
    run = 1 /\ line_pos >= 1
    => (tiers_info.tier_missing
        <=> /\ IsSignature(LineRead)
            /\ TierFound(LineRead, TIER_MOD) = ""
            /\ ~MethodTierDeclared(line_pos)
            /\ ~ClassTierDeclared(line_pos)
            /\ ~ModuleTierDeclared(line_pos))

---------------------------------------------------------------------------
(* C18: test_name is none, or the bare name of a test def without indent,  *)
(* or ClassName.function_name for a test def with indent, where ClassName  *)
(* is the name of a class-definition line read earlier whose scope the    *)
(* def is in; the prefix of a name is never anything but such a class name.*)

\* the name in a class-definition line
ClassDefName(line) == UpToStop(LStrip(line, {" "}), 7, 7, {"(", ":"})

\* the name the test def of line j should get
NameExpected(j) ==
    IF IndentOf(pyinput[j]) = 0 THEN {TEST_NAME(pyinput[j])}
    ELSE IF ScopeChanges(j) # {} /\ StartsClass(SetMax(ScopeChanges(j)))
    THEN {ClassDefName(pyinput[SetMax(ScopeChanges(j))])
          \o <<".">> \o TEST_NAME(pyinput[j])}
    ELSE {}

C18_QualifiedName ==
    run = 1 /\ tests_info.test_name # <<>>
    => \E j \in SignaturesRead : tests_info.test_name \in NameExpected(j)

---------------------------------------------------------------------------
(* C20: the lines of a doc block, from its opening line to the line before *)
(* its closing line, are kept back and written when the block ends, ahead  *)
(* of the metadata block: no line of an existing doc block is dropped,     *)
(* also not when the block is still open at a new definition or at the end *)
(* of the input.                                                           *)

\* line i opens a doc block: it follows a complete signature and starts a
\* block that it does not end
OpensDocBlock(i) ==
    /\ i >= 2
    /\ IsSignature(pyinput[i - 1])
    /\ TEST_DEF_END(pyinput[i - 1])
    /\ DOCSTRING_START(pyinput[i])
    /\ ~DOCSTRING_SAME_END(pyinput[i])

ClosesDocBlock(i) ==
    DOCSTRING_END(pyinput[i]) \/ DOCSTRING_SAME_END(pyinput[i])

\* line i is a line of a doc block before the closing line
InDocBlock(i) ==
    \E k \in 2..i :
        /\ OpensDocBlock(k)
        /\ \A m \in (k + 1)..i : ~ClosesDocBlock(m)

C20_DocBlockPreserved ==
    run = 1 /\ rewrite_pc = "returned"
    => \A i \in 1..Len(pyinput) :
          InDocBlock(i) => Contains(Concat(newfile), pyinput[i])

---------------------------------------------------------------------------
(* C19: once a test signature is complete, blank lines leave the scanner   *)
(* awaiting the doc block; the first line after it that is not blank (a)   *)
(* raises docstring_end with line_is_in_docstring false and an empty       *)
(* buffer when it does not start a doc block, (b) raises docstring_end     *)
(* with its text without the closing quotes as the only buffered line when *)
(* it starts and ends a doc block, (c) raises docstring_begin and enters   *)
(* the doc block with the line as the only buffered line when it only      *)
(* starts one; docstring_begin and docstring_end are never both true.      *)

\* line i starts a definition: it is read as a class or a test line
IsDefinition(i) ==
    Contains(scan_input[i], CLASS_TEST) \/ Contains(scan_input[i], DEF_TEST)

\* the signature of the test def of line k is open after line j
SignatureOpen(k, j) ==
    /\ Contains(scan_input[k], DEF_TEST)
    /\ ~Contains(scan_input[k], CLASS_TEST)
    /\ TEST_NAME(scan_input[k]) # <<>>
    /\ \A m \in k..j : ~TEST_DEF_END(scan_input[m])
    /\ \A m \in (k + 1)..j : ~IsDefinition(m)

\* line j completes a test signature: a test def that ends with `):`, or
\* the first such end after a test def whose signature is open
CompletesSignature(j) ==
    /\ TEST_DEF_END(scan_input[j])
    /\ \/ /\ Contains(scan_input[j], DEF_TEST)
          /\ ~Contains(scan_input[j], CLASS_TEST)
          /\ TEST_NAME(scan_input[j]) # <<>>
       \/ /\ ~IsDefinition(j)
          /\ \E k \in 1..(j - 1) : SignatureOpen(k, j - 1)

\* line i is the first line that is not blank after a complete signature
FirstAfterSignature(i) ==
    /\ Strip(scan_input[i], Whitespace) # <<>>
    /\ ~IsDefinition(i)
    /\ \E j \in 1..(i - 1) :
          /\ CompletesSignature(j)
          /\ \A m \in (j + 1)..(i - 1) :
                Strip(scan_input[m], Whitespace) = <<>>

LineScanned == scan_input[Len(scan_input)]

C19_AwaitingDoc ==
    /\ ~(scan_test.docstring_begin /\ scan_test.docstring_end)
    /\ scan_input # <<>> /\ FirstAfterSignature(Len(scan_input))
       => IF ~DOCSTRING_START(LineScanned)
          THEN /\ scan_test.docstring_end
               /\ ~scan_test.line_is_in_docstring
               /\ scan_test.docstring_data = <<>>
          ELSE IF DOCSTRING_SAME_END(LineScanned)
          THEN /\ scan_test.docstring_end
               /\ scan_test.docstring_data = <<SameLineText(LineScanned)>>
          ELSE /\ scan_test.docstring_begin
               /\ scan_test._docstring_now
               /\ scan_test.docstring_data = <<LineScanned>>

---------------------------------------------------------------------------
(* C23: after any sequence of lines at most one of _test_def_now (the      *)
(* signature is open), _docstring_next (the doc block is awaited) and      *)
(* _docstring_now (inside the doc block) is true.                          *)

C23_OneModeAtMost ==
    /\ ~(scan_test._test_def_now /\ scan_test._docstring_next)
    /\ ~(scan_test._test_def_now /\ scan_test._docstring_now)
    /\ ~(scan_test._docstring_next /\ scan_test._docstring_now)

---------------------------------------------------------------------------
(* C24: between a line on which a test-function definition is registered   *)
(* and the next such line (or the end of the input) docstring_end is       *)
(* raised on at most one line, so one pass writes at most one metadata     *)
(* block per test function.                                                *)

\* the CurrentTest object after the first n lines
RECURSIVE ScanAfter(_)
ScanAfter(n) ==
    IF n = 0 THEN CurrentTestInit
    ELSE CurrentTest_process_line(ScanAfter(n - 1), scan_input[n])

\* the lines on which docstring_end is raised
EndsRaised == {i \in 1..Len(scan_input) : ScanAfter(i).docstring_end}

\* line k registers a test-function definition
RegistersTest(k) ==
    /\ ~Contains(scan_input[k], CLASS_TEST)
    /\ Contains(scan_input[k], DEF_TEST)
    /\ TEST_NAME(scan_input[k]) # <<>>

C24_OneBlockPerTest ==
    \A i \in EndsRaised : \A j \in EndsRaised :
        i < j => \E k \in (i + 1)..j : RegistersTest(k)

---------------------------------------------------------------------------
(* C25: tier_missing is raised on a line only if CurrentTest registers a   *)
(* new test-function definition on that line, so a tier line is written    *)
(* only before a line that starts a test def and with the metadata of that *)
(* test.                                                                   *)

C25_ScannersAgree ==
    run = 1 /\ line_pos >= 1 /\ tiers_info.tier_missing
    => IsSignature(LineRead)

---------------------------------------------------------------------------
(* C21: once the files are rewritten, gen_manual_testcases returns exactly *)
(* one stub for every record that is not automated of every title of       *)
(* get_manual_testcases() that is not among the seen tests, and no stub    *)
(* for a seen title; a test is among the seen tests only if the metadata   *)
(* resolved for it declares a caseautomation that is not automated.        *)

ManualBuilt == get_manual_testcases(gen_index, gen_built)

StubsFor(title, id) ==
    {k \in 1..Len(gen_stubs) :
        gen_stubs[k].test_name = title /\ gen_stubs[k].id = id}

SeenTests == {gen_seen[i] : i \in 1..Len(gen_seen)}

C21_StubSelection ==
    /\ gen_pc \in {"done", "raised"}
       => /\ \A title \in DOMAIN ManualBuilt \ SeenTests :
                \A i \in 1..Len(ManualBuilt[title]) :
                   Cardinality(StubsFor(title, ManualBuilt[title][i])) = 1
          /\ \A k \in 1..Len(gen_stubs) :
                /\ gen_stubs[k].test_name \in DOMAIN ManualBuilt \ SeenTests
                /\ \E i \in 1..Len(ManualBuilt[gen_stubs[k].test_name]) :
                      ManualBuilt[gen_stubs[k].test_name][i] = gen_stubs[k].id
    /\ \A name \in SeenTests :
          LET polarion_data ==
                  get_polarion_data(name, NamedRecords(gen_index, gen_built))
          IN  /\ "caseautomation" \in DOMAIN polarion_data
              /\ polarion_data["caseautomation"]
                    # StrValue(Chars("automated"))

---------------------------------------------------------------------------
(* C22: the cache and the index are read-only once they are built: after   *)
(* any number of tests rewritten and after gen_manual_testcases every      *)
(* record of the cache has the field values it was built with, the lists   *)
(* of steps included, and available_testcases has the id lists it was      *)
(* built with.                                                             *)

---------------------------------------------------------------------------
(* C26: no two stubs of one generated manual-tests file have the same      *)
(* function name, whatever the index holds.                                *)

C26_StubNamesUnique ==
    gen_pc = "done"
    => \A j \in 1..Len(gen_stubs) : \A k \in 1..Len(gen_stubs) :
          j # k => gen_stubs[j].name # gen_stubs[k].name

=============================================================================
